---- MODULE Spec2Model ----
(***************************************************************************)
(* Model of the integer hashing engine of tsl-x (src/src/hash.js): the     *)
(* rotate primitive, the Jenkins lookup3 rounds jenkins_mix and            *)
(* jenkins_final, the seeded folds jenkins_fold1..4, the Wang integer hash *)
(* and the eight public entry points jenkins_hash11..14, wang_hash11..14.  *)
(*                                                                         *)
(* A 32-bit unsigned word (TSL `uint`) is the pair <<hi, lo>> of its two   *)
(* 16-bit halves, so that every operation wraps modulo 2^32 without the    *)
(* model checker's own integers overflowing.  A float is a dyadic rational *)
(* [num, den]; the conversion uint -> float rounds to the 24 significant   *)
(* bits of an IEEE-754 single.                                             *)
(***************************************************************************)
EXTENDS Integers, Sequences, FiniteSets, TLC

\* ------------------------------------------------------------------------
\* State
\* ------------------------------------------------------------------------

VARIABLES
    rmode,    \* rounding direction of the platform's uint -> float conversion
    fn,       \* entry point being evaluated
    input,    \* its argument k: the bit patterns of the components x, y, z, w
    key,      \* the key words it passes on (floatBitsToUint of the components)
    phase,    \* routine the evaluation is in
    pc,       \* next statement of that routine's body
    fold,     \* a, b, c of jenkins_foldN
    mixed,    \* A, B, C of jenkins_fold4 after jenkins_mix
    callee,   \* A, B, C of jenkins_mix / jenkins_final
    K,        \* K of wang_hash
    h,        \* word returned by jenkins_foldN
    out,      \* float returned by the entry point
    calls,    \* history: routines invoked by this evaluation, in order
    ref,      \* history: an earlier completed call [fn, input, out]
    rx,       \* rot called on its own: the word x
    rk,       \*   the shift k
    ry,       \*   the word returned
    rpc,      \*   "idle", "called" or "returned"
    parked,   \* concurrent calls: the locals of the calls that are not stepping
    bkern,    \* bake: the kernel dispatched, or "none"
    bsize,    \*   width and height (and depth, if 3D) of the target texture
    bpending, \*   instance indices of the invocations that have not run yet
    bstore,   \*   the texture: the value stored at each texel, <<>> if none
    bcount,   \*   history: how many times each texel was written
    ramp_stops,   \* color_ramp_linear: the array the caller passes as stops
    ramp_fac,     \*   the value of fac, in halves of a position unit
    ramp_local,   \*   the function's own `stops` after stops.map(...)
    ramp_sorted,  \*   sorted_stops
    ramp_i,       \*   the loop index i
    ramp_color,   \*   color
    ramp_pc,      \*   "idle", "called", "mapped", "sorted", "loop" or "done"
    ramp_nan,     \*   what the platform's clamp(NaN, 0, 1) gives: 0, 1 or NaN
    dispatched_count, \* color_ramp: the module's counter of ramps built
    cr_colorstops,    \*   the argument colorstops
    cr_mode,          \*   the argument mode
    cr_fac,           \*   the argument fac of the function returned
    cr_i,             \*   the loop index i
    i_end,            \*   the variable i_end, an unsigned 32-bit word
    i_start,          \*   the constant i_start, an unsigned 32-bit word
    cr_pc,            \*   next statement of the function
    cr_out,           \*   the color returned
    cr_via,           \*   history: the statement that returned
    cr_reads          \*   history: the <<array, index>> element reads made

\* The variables of a hash evaluation.
hashVars == <<rmode, fn, input, key, phase, pc, fold, mixed, callee, K, h, out, calls, ref>>

\* The variables of a call of rot on its own.
rotVars == <<rx, rk, ry, rpc>>

\* The variables of a bake.
bakeVars == <<bkern, bsize, bpending, bstore, bcount>>

\* The variables of a call of color_ramp_linear.
rampVars ==
    <<ramp_stops, ramp_fac, ramp_local, ramp_sorted, ramp_i, ramp_color, ramp_pc, ramp_nan>>

\* The variables of a call of color_ramp and of the function it returns.
loopRampVars ==
    <<dispatched_count, cr_colorstops, cr_mode, cr_fac, cr_i, i_end, i_start, cr_pc,
      cr_out, cr_via, cr_reads>>

\* The variables a hash evaluation leaves alone.
nonHashVars == <<rotVars, parked, bakeVars, rampVars, loopRampVars>>

\* The variables a call of rot on its own leaves alone.
nonRotVars == <<hashVars, parked, bakeVars, rampVars, loopRampVars>>

\* The variables that are not local to one hash call.
nonFrameVars == <<rmode, ref, rotVars, bakeVars, rampVars, loopRampVars>>

\* The variables a bake leaves alone.
nonBakeVars == <<hashVars, rotVars, parked, rampVars, loopRampVars>>

\* The variables a call of color_ramp_linear leaves alone.
nonRampVars == <<hashVars, rotVars, parked, bakeVars, loopRampVars>>

\* The variables a call of color_ramp leaves alone.
nonLoopRampVars == <<hashVars, rotVars, parked, bakeVars, rampVars>>

vars == <<hashVars, nonHashVars>>

\* ------------------------------------------------------------------------
\* 32-bit words
\* ------------------------------------------------------------------------

Half == 2^16

W(hi, lo) == <<hi, lo>>

Zero == W(0, 0)

IsWord(x) == x \in (0..(Half - 1)) \X (0..(Half - 1))

Pow2(n) == 2^n

\* Bitwise XOR / OR of two naturals below 2^n, bit by bit.
RECURSIVE BitXor(_, _, _)
BitXor(a, b, n) ==
    IF n = 0 THEN 0
    ELSE (((a % 2) + (b % 2)) % 2) + 2 * BitXor(a \div 2, b \div 2, n - 1)

RECURSIVE BitOr(_, _, _)
BitOr(a, b, n) ==
    IF n = 0 THEN 0
    ELSE (IF a % 2 = 1 \/ b % 2 = 1 THEN 1 ELSE 0)
         + 2 * BitOr(a \div 2, b \div 2, n - 1)

\* Mutant of WAdd: the carry out of bit 31 is kept.
WAdd_carry_kept(x, y) ==
    LET lo == x[2] + y[2]
        hi == x[1] + y[1] + (lo \div Half)
    IN  W(hi, lo % Half)

\* uint.add: wraps modulo 2^32.
WAdd(x, y) ==
    LET lo == x[2] + y[2]
        hi == x[1] + y[1] + (lo \div Half)
    IN  W(hi % Half, lo % Half)

\* uint.sub: wraps modulo 2^32.
WSub(x, y) ==
    LET lo == x[2] - y[2]
        hi == x[1] - y[1] - (IF lo < 0 THEN 1 ELSE 0)
    IN  W((hi + Half) % Half, (lo + Half) % Half)

\* uint.bitXor
WXor(x, y) == W(BitXor(x[1], y[1], 16), BitXor(x[2], y[2], 16))

\* uint.bitOr
WOr(x, y) == W(BitOr(x[1], y[1], 16), BitOr(x[2], y[2], 16))

\* uint.shiftLeft(k): the bits shifted above bit 31 are dropped.  The shift
\* amount is taken modulo 32, as the shading languages do at run time.
WShl(x, k) ==
    LET s == k % 32
    IN  IF s >= 16
        THEN W((x[2] * Pow2(s - 16)) % Half, 0)
        ELSE W(((x[1] * Pow2(s)) % Half) + ((x[2] * Pow2(s)) \div Half),
               (x[2] * Pow2(s)) % Half)

\* uint.shiftRight(k): logical shift, zero filled.
WShr(x, k) ==
    LET s == k % 32
    IN  IF s >= 16
        THEN W(0, x[1] \div Pow2(s - 16))
        ELSE W(x[1] \div Pow2(s),
               ((x[1] % Pow2(s)) * Pow2(16 - s)) + (x[2] \div Pow2(s)))

\* (a * b) mod 2^16 for a, b below 2^16, through the bytes of a.
MulMod16(a, b) ==
    (((a % 256) * b) + ((((a \div 256) * b) % 256) * 256)) % Half

\* uint.mul by a constant c below 2^32: wraps modulo 2^32.
WMul(x, c) ==
    LET c1 == c \div Half
        c0 == c % Half
        p  == (x[2] \div 256) * c0
        q  == ((x[2] % 256) * c0) + ((p % 256) * 256)
    IN  W(((q \div Half) + (p \div 256) + MulMod16(x[1], c0) + MulMod16(x[2], c1)) % Half,
          q % Half)

\* A small natural as a word.
WNat(n) == W(n \div Half, n % Half)

\* ------------------------------------------------------------------------
\* rot, and the statements of the hash routines
\* ------------------------------------------------------------------------

\* Mutant of rot: the bits shifted out at the top are lost.
rot_shift_only(x, k) == WShl(x, k)

\* rot(x, k) = uint(x).shiftLeft(k).bitOr(uint(x).shiftRight(uint(32).sub(k)))
rot(x, k) == WOr(WShl(x, k), WShr(x, 32 - k))

\* One source statement on the uint variables of a routine.  d is the
\* variable assigned, s the variable (or key index, or constant) read, k a
\* shift amount.
Stmt(op, d, s, k) == [op |-> op, d |-> d, s |-> s, k |-> k]

SubAssign(d, s)       == Stmt("sub", d, s, 0)        \* d.subAssign(s)
AddAssign(d, s)       == Stmt("add", d, s, 0)        \* d.addAssign(s)
XorAssign(d, s)       == Stmt("xor", d, s, 0)        \* d.bitXorAssign(s)
XorRotAssign(d, s, k) == Stmt("xorrot", d, s, k)     \* d.bitXorAssign(rot(s, k))
SubRotAssign(d, s, k) == Stmt("subrot", d, s, k)     \* d.subAssign(rot(s, k))
Assign(d, s)          == Stmt("mov", d, s, 0)        \* d.assign(s)
AssignSeed(d, n)      == Stmt("seed", d, n, 0)       \* d.assign(0xdeadbeef + (n << 2) + 13)
AddKey(d, i)          == Stmt("addkey", d, i, 0)     \* d.addAssign(<i-th key word>)
XorConstShr(d, c, k)  == Stmt("xorcshr", d, c, k)    \* d.assign(d.bitXor(c).bitXor(d.shiftRight(k)))
MulAssign(d, c)       == Stmt("mul", d, c, 0)        \* d.mulAssign(c)
XorShrAssign(d, k)    == Stmt("xorshr", d, d, k)     \* d.bitXorAssign(d.shiftRight(k))

\* Mutant of SeedShift: the arity is not shifted.
SeedShift_unshifted(n) == WNat(n)

\* The seed word of the fold of n key words:
\* uint(0xdeadbeef).add(uint(n).shiftLeft(2)).add(13)
SeedShift(n) == WShl(WNat(n), 2)

\* Mutant of Seed: the seed is kept in a variable shared by all calls and
\* is changed once a call has returned.
Seed_shared(n) ==
    IF ref.fn = "none"
    THEN WAdd(WAdd(W(\hdead, \hbeef), SeedShift(n)), WNat(13))
    ELSE WAdd(WAdd(W(\hdead, \hbeef), SeedShift(n)), WNat(14))

Seed(n) == WAdd(WAdd(W(\hdead, \hbeef), SeedShift(n)), WNat(13))

\* The effect of one statement on the variables r (a record of words), with
\* ks the tuple of ks words of the call.
ExecStmt(st, r, ks) ==
    [r EXCEPT ![st.d] =
        CASE st.op = "sub"     -> WSub(r[st.d], r[st.s])
          [] st.op = "add"     -> WAdd(r[st.d], r[st.s])
          [] st.op = "xor"     -> WXor(r[st.d], r[st.s])
          [] st.op = "xorrot"  -> WXor(r[st.d], rot(r[st.s], st.k))
          [] st.op = "subrot"  -> WSub(r[st.d], rot(r[st.s], st.k))
          [] st.op = "mov"     -> r[st.s]
          [] st.op = "seed"    -> Seed(st.s)
          [] st.op = "addkey"  -> WAdd(r[st.d], ks[st.s])
          [] st.op = "xorcshr" -> WXor(WXor(r[st.d], WNat(st.s)), WShr(r[st.d], st.k))
          [] st.op = "mul"     -> WMul(r[st.d], st.s)
          [] st.op = "xorshr"  -> WXor(r[st.d], WShr(r[st.d], st.k))]

\* The variables after the first n statements of body.
RECURSIVE RunBody(_, _, _, _)
RunBody(body, r, ks, n) ==
    IF n = 0 THEN r
    ELSE ExecStmt(body[n], RunBody(body, r, ks, n - 1), ks)

Run(body, r, ks) == RunBody(body, r, ks, Len(body))

\* The uint variables A, B, C of jenkins_mix / jenkins_final, initialised
\* from the arguments (uint(a).toVar(), ...).
ABC(a, b, c) == [A |-> a, B |-> b, C |-> c]

\* The uint variables a, b, c of a fold: uint().toVar() is 0.
FoldLocals == [a |-> Zero, b |-> Zero, c |-> Zero]

\* Mutant of jenkins_mix_body: the fourth rotation is by 6 instead of 16.
jenkins_mix_body_rot6 ==
    << SubAssign("A", "C"), XorRotAssign("A", "C", 4),  AddAssign("C", "B"),
       SubAssign("B", "A"), XorRotAssign("B", "A", 6),  AddAssign("A", "C"),
       SubAssign("C", "B"), XorRotAssign("C", "B", 8),  AddAssign("B", "A"),
       SubAssign("A", "C"), XorRotAssign("A", "C", 6),  AddAssign("C", "B"),
       SubAssign("B", "A"), XorRotAssign("B", "A", 19), AddAssign("A", "C"),
       SubAssign("C", "B"), XorRotAssign("C", "B", 4),  AddAssign("B", "A") >>

jenkins_mix_body ==
    << SubAssign("A", "C"), XorRotAssign("A", "C", 4),  AddAssign("C", "B"),
       SubAssign("B", "A"), XorRotAssign("B", "A", 6),  AddAssign("A", "C"),
       SubAssign("C", "B"), XorRotAssign("C", "B", 8),  AddAssign("B", "A"),
       SubAssign("A", "C"), XorRotAssign("A", "C", 16), AddAssign("C", "B"),
       SubAssign("B", "A"), XorRotAssign("B", "A", 19), AddAssign("A", "C"),
       SubAssign("C", "B"), XorRotAssign("C", "B", 4),  AddAssign("B", "A") >>

\* Mutant of jenkins_final_body: the last rotation is by 32 instead of 24.
jenkins_final_body_rot32 ==
    << XorAssign("C", "B"), SubRotAssign("C", "B", 14),
       XorAssign("A", "C"), SubRotAssign("A", "C", 11),
       XorAssign("B", "A"), SubRotAssign("B", "A", 25),
       XorAssign("C", "B"), SubRotAssign("C", "B", 16),
       XorAssign("A", "C"), SubRotAssign("A", "C", 4),
       XorAssign("B", "A"), SubRotAssign("B", "A", 14),
       XorAssign("C", "B"), SubRotAssign("C", "B", 32) >>

\* Mutant of jenkins_final_body: the fifth and sixth steps are exchanged.
jenkins_final_body_swapped ==
    << XorAssign("C", "B"), SubRotAssign("C", "B", 14),
       XorAssign("A", "C"), SubRotAssign("A", "C", 11),
       XorAssign("B", "A"), SubRotAssign("B", "A", 25),
       XorAssign("C", "B"), SubRotAssign("C", "B", 16),
       XorAssign("B", "A"), SubRotAssign("B", "A", 14),
       XorAssign("A", "C"), SubRotAssign("A", "C", 4),
       XorAssign("C", "B"), SubRotAssign("C", "B", 24) >>

jenkins_final_body ==
    << XorAssign("C", "B"), SubRotAssign("C", "B", 14),
       XorAssign("A", "C"), SubRotAssign("A", "C", 11),
       XorAssign("B", "A"), SubRotAssign("B", "A", 25),
       XorAssign("C", "B"), SubRotAssign("C", "B", 16),
       XorAssign("A", "C"), SubRotAssign("A", "C", 4),
       XorAssign("B", "A"), SubRotAssign("B", "A", 14),
       XorAssign("C", "B"), SubRotAssign("C", "B", 24) >>

\* jenkins_mix(a, b, c): the uvec3 (A, B, C) it returns.
jenkins_mix(a, b, c) == Run(jenkins_mix_body, ABC(a, b, c), <<>>)

\* jenkins_final(a, b, c): the uvec3 (A, B, C) it returns.
jenkins_final(a, b, c) == Run(jenkins_final_body, ABC(a, b, c), <<>>)

\* The statements of jenkins_foldN up to its call of jenkins_mix (N = 4) or
\* jenkins_final (N = 1..3).
jenkins_fold1_body ==
    << AssignSeed("c", 1), Assign("b", "c"), Assign("a", "b"),
       AddKey("a", 1) >>

\* Mutant of jenkins_fold2_body: the two key words are exchanged.
jenkins_fold2_body_swapped ==
    << AssignSeed("c", 2), Assign("b", "c"), Assign("a", "b"),
       AddKey("b", 1), AddKey("a", 2) >>

jenkins_fold2_body ==
    << AssignSeed("c", 2), Assign("b", "c"), Assign("a", "b"),
       AddKey("b", 2), AddKey("a", 1) >>

jenkins_fold3_body ==
    << AssignSeed("c", 3), Assign("b", "c"), Assign("a", "b"),
       AddKey("c", 3), AddKey("b", 2), AddKey("a", 1) >>

\* Mutant of jenkins_fold4_body: kz is added to b.
jenkins_fold4_body_kz_to_b ==
    << AssignSeed("c", 4), Assign("b", "c"), Assign("a", "b"),
       AddKey("a", 1), AddKey("b", 2), AddKey("b", 3) >>

\* Mutant of jenkins_fold4_body: kz is added to c, as jenkins_fold3 does.
jenkins_fold4_body_kz_to_c ==
    << AssignSeed("c", 4), Assign("b", "c"), Assign("a", "b"),
       AddKey("a", 1), AddKey("b", 2), AddKey("c", 3) >>

jenkins_fold4_body ==
    << AssignSeed("c", 4), Assign("b", "c"), Assign("a", "b"),
       AddKey("a", 1), AddKey("b", 2), AddKey("a", 3) >>

\* The statements of jenkins_fold4 between jenkins_mix and jenkins_final, on
\* A = uint(mixed.x).toVar(), B = mixed.y, C = mixed.z.
jenkins_fold4_tail == << AddKey("A", 4) >>

FoldBody(n) ==
    CASE n = 1 -> jenkins_fold1_body
      [] n = 2 -> jenkins_fold2_body
      [] n = 3 -> jenkins_fold3_body
      [] n = 4 -> jenkins_fold4_body

\* Whether the fold of n key words runs jenkins_mix before jenkins_final.
FoldUsesMix(n) == n = 4

\* jenkins_foldN(ks): the word it returns, jenkins_final(...).z
jenkins_fold(ks) ==
    LET n  == Len(ks)
        f  == Run(FoldBody(n), FoldLocals, ks)
        m  == IF FoldUsesMix(n)
              THEN Run(jenkins_fold4_tail, jenkins_mix(f.a, f.b, f.c), ks)
              ELSE ABC(f.a, f.b, f.c)
    IN  jenkins_final(m.A, m.B, m.C).C

\* Mutant of wang_hash_body: the first multiplier is 8 instead of 9.
wang_hash_body_mul8 ==
    << XorConstShr("K", 61, 16),
       MulAssign("K", 8),
       XorShrAssign("K", 4),
       MulAssign("K", \h27d4eb2d),
       XorShrAssign("K", 15) >>

\* Mutant of wang_hash_body: the first shift is by 15 instead of 16.
wang_hash_body_shr15 ==
    << XorConstShr("K", 61, 15),
       MulAssign("K", 9),
       XorShrAssign("K", 4),
       MulAssign("K", \h27d4eb2d),
       XorShrAssign("K", 15) >>

\* The integer statements of wang_hash on K = uint(k).
wang_hash_body ==
    << XorConstShr("K", 61, 16),
       MulAssign("K", 9),
       XorShrAssign("K", 4),
       MulAssign("K", \h27d4eb2d),
       XorShrAssign("K", 15) >>

\* The word K of wang_hash(k) before its conversion to float.
wang_word(k) == Run(wang_hash_body, [K |-> k], <<>>).K

\* ------------------------------------------------------------------------
\* Floats
\* ------------------------------------------------------------------------

\* A float value is the rational num / den, num and den naturals up to 2^32
\* held like words as <<hi, lo>> with hi up to 2^16 (2^32 is <<2^16, 0>>).
TwoTo32 == W(Half, 0)

WideLess(x, y) == x[1] < y[1] \/ (x[1] = y[1] /\ x[2] < y[2])

WideLeq(x, y) == x = y \/ WideLess(x, y)

WideSub(x, y) ==
    LET lo == x[2] - y[2]
    IN  IF lo < 0 THEN W(x[1] - y[1] - 1, lo + Half) ELSE W(x[1] - y[1], lo)

\* Number of significant bits of a natural below 2^16.
RECURSIVE BitLen(_)
BitLen(n) == IF n = 0 THEN 0 ELSE 1 + BitLen(n \div 2)

\* The directions in which a conversion to float may round a value that a
\* 24-bit significand cannot hold.
RoundingModes == {"nearest", "down", "up"}

\* uint.toFloat(): the word as an IEEE-754 single.  A word of more than 24
\* significant bits loses its low bits: it becomes one of the two adjacent
\* floats, chosen by the rounding direction (nearest: ties to even).
ToFloat(w, mode) ==
    LET bl   == BitLen(w[1])
        drop == IF bl > 8 THEN bl - 8 ELSE 0
        ulp  == Pow2(drop)
        rem  == w[2] % ulp
        low  == w[2] - rem
        odd  == (low \div ulp) % 2 = 1
        up   == CASE mode = "down"    -> FALSE
                  [] mode = "up"      -> rem > 0
                  [] mode = "nearest" -> (2 * rem > ulp) \/ (2 * rem = ulp /\ odd)
    IN  IF ~up THEN W(w[1], low)
        ELSE IF low + ulp = Half THEN W(w[1] + 1, 0)
        ELSE W(w[1], low + ulp)

\* A numeric constant of the source used as a float operand: the nearest
\* single (0xffff_ffff becomes 2^32; 0xffff_ffff + 1 is 2^32 exactly).
FloatConst(x) == IF x = TwoTo32 THEN x ELSE ToFloat(x, "nearest")

\* float.div(d).  Both divisors of this module are the float 2^32, a power
\* of two, so the quotient of two singles is exact.
FloatDiv(x, d) == [num |-> x, den |-> d]

\* float.fract(): x - floor(x), for x >= 0.
RECURSIVE FractNum(_, _)
FractNum(n, d) == IF WideLess(n, d) THEN n ELSE FractNum(WideSub(n, d), d)

Fract(f) == [num |-> FractNum(f.num, f.den), den |-> f.den]

\* Mutant of jenkins_normalize: divides by the largest signed value.
jenkins_normalize_signed(w, mode) ==
    [num |-> ToFloat(w, mode), den |-> ToFloat(W(\h7fff, \hffff), "nearest")]

\* The float handed back by jenkins_hashN for the folded word w:
\* w.toFloat().div(0xffff_ffff)
jenkins_normalize(w, mode) ==
    FloatDiv(ToFloat(w, mode), FloatConst(W(\hffff, \hffff)))

\* Mutant of wang_normalize: the fractional part is not taken.
wang_normalize_nofract(K0, mode) ==
    [num |-> ToFloat(K0, mode), den |-> TwoTo32]

\* The float handed back by wang_hash for its mixed word K:
\* K.toFloat().div(0xffff_ffff + 1).fract()
wang_normalize(K0, mode) ==
    Fract(FloatDiv(ToFloat(K0, mode), FloatConst(TwoTo32)))

\* wang_hash(k) as a whole.
wang_hash(k, mode) == wang_normalize(wang_word(k), mode)

\* ------------------------------------------------------------------------
\* The public entry points
\* ------------------------------------------------------------------------

JenkinsEntries == {"jenkins_hash11", "jenkins_hash12", "jenkins_hash13", "jenkins_hash14"}

WangEntries == {"wang_hash11", "wang_hash12", "wang_hash13", "wang_hash14"}

EntryPoints == JenkinsEntries \cup WangEntries

\* Number of float components of the argument k of an entry point.
Arity(f) ==
    CASE f \in {"jenkins_hash11", "wang_hash11"} -> 1
      [] f \in {"jenkins_hash12", "wang_hash12"} -> 2
      [] f \in {"jenkins_hash13", "wang_hash13"} -> 3
      [] f \in {"jenkins_hash14", "wang_hash14"} -> 4

\* Mutant of EntryUsesFold: wang_hash11 folds its key word like the others.
EntryUsesFold_always(f) == f \in EntryPoints

\* Mutant of EntryUsesFold: wang_hash12 hands its first key word to
\* wang_hash as wang_hash11 does, ignoring the second component.
EntryUsesFold_from3(f) == f \notin {"wang_hash11", "wang_hash12"}

\* Whether the entry point sends its key words through jenkins_foldN:
\* every one does but wang_hash11, which hands floatBitsToUint(k) to
\* wang_hash itself.
EntryUsesFold(f) == f # "wang_hash11"

\* The key words an entry point passes on, from the bit patterns v of the
\* components of k (v[1] = k.x, v[2] = k.y, v[3] = k.z, v[4] = k.w):
\* floatBitsToUint(k.x), floatBitsToUint(k.y), ... in this order.
\* floatBitsToUint reinterprets the bits: the word is the bit pattern.
EntryArgs(f, v) == [i \in 1..Arity(f) |-> v[i]]

\* Name of the fold routine of n key words.
FoldName(n) ==
    CASE n = 1 -> "jenkins_fold1"
      [] n = 2 -> "jenkins_fold2"
      [] n = 3 -> "jenkins_fold3"
      [] n = 4 -> "jenkins_fold4"

\* ------------------------------------------------------------------------
\* Inputs of the model
\* ------------------------------------------------------------------------

\* Float bit patterns used as inputs: 0.0, 1.0, and words chosen so that
\* the extreme cases of the conversion to float happen:
\*   jenkins_fold1(0x83e1b431) = 0x00000000
\*   jenkins_fold1(0x5d8c8fc6) = 0xffffffff
\*   jenkins_fold1(0x011c9d96) = 0xffffffd9
\*   jenkins_fold1(0x00cc9c43) = 0xffffff14
\*   wang word of 0x02e32977   = 0xffffffda
\*   wang word of 0x0000003d   = 0x00000000
KeyPool ==
    << W(\h0000, \h0000), W(\h3f80, \h0000), W(\h83e1, \hb431),
       W(\h5d8c, \h8fc6), W(\h011c, \h9d96), W(\h00cc, \h9c43),
       W(\h02e3, \h2977), W(\h0000, \h003d) >>

\* Bound: how many words of KeyPool the components of a vector input
\* (vec2, vec3, vec4) are drawn from.
MaxVecKeys == 2

\* Bound: how many words of KeyPool any input is drawn from when calls are
\* compared with an earlier call (SpecDet).
MaxDetKeys == 1

FirstKeys(n) == {KeyPool[i] : i \in 1..(IF n < Len(KeyPool) THEN n ELSE Len(KeyPool))}

ScalarKeys == FirstKeys(Len(KeyPool))

VecKeys == FirstKeys(MaxVecKeys)

DetKeys == FirstKeys(MaxDetKeys)

\* Float bit patterns on which the one- and two-component wang hashes are
\* compared: 0.0, and two words on which they meet,
\*   jenkins_fold2(0x04567e12, 0) = 0x04567e12
\*   jenkins_fold2(0x02e5e059, 0) = 0x071f3057, whose wang word 0xe5e6fc72
\*       and the wang word 0xe5e6fc43 of 0x02e5e059 convert to one float,
\* then 1.0.
CrossPool ==
    << W(\h0456, \h7e12), W(\h0000, \h0000), W(\h02e5, \he059), W(\h3f80, \h0000) >>

\* Bound: how many words of CrossPool the scalar and vec2 inputs are drawn
\* from when the two arities are compared (SpecCross).
MaxCrossKeys == 3

CrossKeys ==
    {CrossPool[i] : i \in 1..(IF MaxCrossKeys < Len(CrossPool) THEN MaxCrossKeys ELSE Len(CrossPool))}

\* The inputs of arity n with components from S.
Vectors(n, S) == [1..n -> S]

\* ------------------------------------------------------------------------
\* Initial state and steps of an evaluation
\* ------------------------------------------------------------------------

NoFloat == [num |-> Zero, den |-> Zero]

NoRef == [fn |-> "none", input |-> <<>>, out |-> NoFloat]

NoABC == ABC(Zero, Zero, Zero)

\* No call of rot on its own is in progress.
RotIdle ==
    /\ rx = Zero
    /\ rk = 0
    /\ ry = Zero
    /\ rpc = "idle"

\* No other hash call is in flight.
NoneParked == parked = <<>>

\* No kernel has been dispatched.
BakeIdle ==
    /\ bkern = "none"
    /\ bsize = <<>>
    /\ bpending = {}
    /\ bstore = <<>>
    /\ bcount = <<>>

\* The value of a float that is not a number.
NaN == [num |-> 0, den |-> 0]

\* color_ramp_linear has not been called.
RampIdle ==
    /\ ramp_stops = <<>>
    /\ ramp_fac = 0
    /\ ramp_local = <<>>
    /\ ramp_sorted = <<>>
    /\ ramp_i = 0
    /\ ramp_color = NaN
    /\ ramp_pc = "idle"
    /\ ramp_nan = NaN

\* The value of fac when none was passed.
NoFac == [nan |-> FALSE, halves |-> 0]

\* color_ramp has not been called.
LoopRampIdle ==
    /\ dispatched_count = 0
    /\ cr_colorstops = <<>>
    /\ cr_mode = "none"
    /\ cr_fac = NoFac
    /\ cr_i = 0
    /\ i_end = Zero
    /\ i_start = Zero
    /\ cr_pc = "idle"
    /\ cr_out = NaN
    /\ cr_via = "none"
    /\ cr_reads = {}

\* Nothing but one hash evaluation at a time takes place.
NonHashIdle == RotIdle /\ NoneParked /\ BakeIdle /\ RampIdle /\ LoopRampIdle

\* No hash evaluation has started.
HashIdle ==
    /\ fn = "none"
    /\ input = <<>>
    /\ key = <<>>
    /\ phase = "idle"
    /\ pc = 1
    /\ fold = FoldLocals
    /\ mixed = NoABC
    /\ callee = NoABC
    /\ K = Zero
    /\ h = Zero
    /\ out = NoFloat
    /\ calls = <<>>
    /\ ref = NoRef

Init ==
    /\ NonHashIdle
    /\ rmode \in RoundingModes
    /\ fn = "none"
    /\ input = <<>>
    /\ key = <<>>
    /\ phase = "idle"
    /\ pc = 1
    /\ fold = FoldLocals
    /\ mixed = NoABC
    /\ callee = NoABC
    /\ K = Zero
    /\ h = Zero
    /\ out = NoFloat
    /\ calls = <<>>
    /\ ref = NoRef

\* An entry point is called with the input v.  Its locals are created:
\* the fold's a, b, c (uint().toVar()), or K = uint(k) of wang_hash when the
\* entry point calls wang_hash directly.
Call(f, v) ==
    /\ phase = "idle"
    /\ fn' = f
    /\ input' = v
    /\ key' = EntryArgs(f, v)
    /\ pc' = 1
    /\ fold' = FoldLocals
    /\ mixed' = NoABC
    /\ callee' = NoABC
    /\ h' = Zero
    /\ out' = NoFloat
    /\ IF EntryUsesFold(f)
       THEN /\ phase' = "fold"
            /\ K' = Zero
            /\ calls' = <<FoldName(Arity(f))>>
       ELSE /\ phase' = "wang"
            /\ K' = EntryArgs(f, v)[1]
            /\ calls' = <<"wang_hash">>
    /\ UNCHANGED <<nonHashVars, rmode, ref>>

\* One statement of jenkins_foldN before its first call.
FoldStep ==
    /\ phase = "fold"
    /\ pc <= Len(FoldBody(Len(key)))
    /\ fold' = ExecStmt(FoldBody(Len(key))[pc], fold, key)
    /\ pc' = pc + 1
    /\ UNCHANGED <<nonHashVars, rmode, fn, input, key, phase, mixed, callee, K, h, out, calls, ref>>

\* jenkins_fold4: const mixed = jenkins_mix(a, b, c)
CallMix ==
    /\ phase = "fold"
    /\ pc > Len(FoldBody(Len(key)))
    /\ FoldUsesMix(Len(key))
    /\ callee' = ABC(fold.a, fold.b, fold.c)
    /\ phase' = "mix"
    /\ pc' = 1
    /\ calls' = Append(calls, "jenkins_mix")
    /\ UNCHANGED <<nonHashVars, rmode, fn, input, key, fold, mixed, K, h, out, ref>>

\* One statement of jenkins_mix.
MixStep ==
    /\ phase = "mix"
    /\ pc <= Len(jenkins_mix_body)
    /\ callee' = ExecStmt(jenkins_mix_body[pc], callee, key)
    /\ pc' = pc + 1
    /\ UNCHANGED <<nonHashVars, rmode, fn, input, key, phase, fold, mixed, K, h, out, calls, ref>>

\* jenkins_mix returns uvec3(A, B, C); jenkins_fold4 takes
\* A = uint(mixed.x).toVar(), B = mixed.y, C = mixed.z.
ReturnMix ==
    /\ phase = "mix"
    /\ pc > Len(jenkins_mix_body)
    /\ mixed' = ABC(callee.A, callee.B, callee.C)
    /\ phase' = "tail"
    /\ pc' = 1
    /\ UNCHANGED <<nonHashVars, rmode, fn, input, key, fold, callee, K, h, out, calls, ref>>

\* One statement of jenkins_fold4 between jenkins_mix and jenkins_final.
TailStep ==
    /\ phase = "tail"
    /\ pc <= Len(jenkins_fold4_tail)
    /\ mixed' = ExecStmt(jenkins_fold4_tail[pc], mixed, key)
    /\ pc' = pc + 1
    /\ UNCHANGED <<nonHashVars, rmode, fn, input, key, phase, fold, callee, K, h, out, calls, ref>>

\* The arguments of the fold's call of jenkins_final: (a, b, c) in
\* jenkins_fold1..3, (A, B, C) in jenkins_fold4.
FinalArgs ==
    IF FoldUsesMix(Len(key)) THEN mixed ELSE ABC(fold.a, fold.b, fold.c)

\* return jenkins_final(...).z: the call.
CallFinal ==
    /\ \/ phase = "fold" /\ pc > Len(FoldBody(Len(key))) /\ ~FoldUsesMix(Len(key))
       \/ phase = "tail" /\ pc > Len(jenkins_fold4_tail)
    /\ callee' = ABC(FinalArgs.A, FinalArgs.B, FinalArgs.C)
    /\ phase' = "final"
    /\ pc' = 1
    /\ calls' = Append(calls, "jenkins_final")
    /\ UNCHANGED <<nonHashVars, rmode, fn, input, key, fold, mixed, K, h, out, ref>>

\* One statement of jenkins_final.
FinalStep ==
    /\ phase = "final"
    /\ pc <= Len(jenkins_final_body)
    /\ callee' = ExecStmt(jenkins_final_body[pc], callee, key)
    /\ pc' = pc + 1
    /\ UNCHANGED <<nonHashVars, rmode, fn, input, key, phase, fold, mixed, K, h, out, calls, ref>>

\* jenkins_final returns uvec3(A, B, C); the fold returns its .z
ReturnFinal ==
    /\ phase = "final"
    /\ pc > Len(jenkins_final_body)
    /\ h' = callee.C
    /\ phase' = "folded"
    /\ pc' = 1
    /\ UNCHANGED <<nonHashVars, rmode, fn, input, key, fold, mixed, callee, K, out, calls, ref>>

\* jenkins_hashN: jenkins_foldN(...).toFloat().div(0xffff_ffff)
JenkinsNormalize ==
    /\ phase = "folded"
    /\ fn \in JenkinsEntries
    /\ out' = jenkins_normalize(h, rmode)
    /\ phase' = "done"
    /\ UNCHANGED <<nonHashVars, rmode, fn, input, key, pc, fold, mixed, callee, K, h, calls, ref>>

\* wang_hash12..14: wang_hash(jenkins_foldN(...)), with K = uint(k)
CallWang ==
    /\ phase = "folded"
    /\ fn \in WangEntries
    /\ K' = h
    /\ phase' = "wang"
    /\ pc' = 1
    /\ calls' = Append(calls, "wang_hash")
    /\ UNCHANGED <<nonHashVars, rmode, fn, input, key, fold, mixed, callee, h, out, ref>>

\* One integer statement of wang_hash.
WangStep ==
    /\ phase = "wang"
    /\ pc <= Len(wang_hash_body)
    /\ K' = ExecStmt(wang_hash_body[pc], [K |-> K], key).K
    /\ pc' = pc + 1
    /\ UNCHANGED <<nonHashVars, rmode, fn, input, key, phase, fold, mixed, callee, h, out, calls, ref>>

\* return K.toFloat().div(0xffff_ffff + 1).fract()
WangNormalize ==
    /\ phase = "wang"
    /\ pc > Len(wang_hash_body)
    /\ out' = wang_normalize(K, rmode)
    /\ phase' = "done"
    /\ UNCHANGED <<nonHashVars, rmode, fn, input, key, pc, fold, mixed, callee, K, h, calls, ref>>

\* The entry point returns out to its caller.
Return ==
    /\ phase = "done"
    /\ phase' = "idle"
    /\ UNCHANGED <<nonHashVars, rmode, fn, input, key, pc, fold, mixed, callee, K, h, out, calls, ref>>

\* History: the call that returns is remembered, to be compared with later
\* calls of the same entry point on the same input.
ReturnRemembered ==
    /\ phase = "done"
    /\ ref = NoRef
    /\ phase' = "idle"
    /\ ref' = [fn |-> fn, input |-> input, out |-> out]
    /\ UNCHANGED <<nonHashVars, rmode, fn, input, key, pc, fold, mixed, callee, K, h, out, calls>>

Step ==
    \/ FoldStep
    \/ CallMix
    \/ MixStep
    \/ ReturnMix
    \/ TailStep
    \/ CallFinal
    \/ FinalStep
    \/ ReturnFinal
    \/ JenkinsNormalize
    \/ CallWang
    \/ WangStep
    \/ WangNormalize
    \/ Return

\* Scalar inputs range over the whole pool, vector components over VecKeys.
CallAny ==
    \E f \in EntryPoints :
        \E v \in Vectors(Arity(f), IF Arity(f) = 1 THEN ScalarKeys ELSE VecKeys) :
            Call(f, v)

Next == CallAny \/ Step

Spec == Init /\ [][Next]_vars

\* Calls on inputs from DetKeys, any one of which is remembered.
CallDet ==
    \E f \in EntryPoints : \E v \in Vectors(Arity(f), DetKeys) : Call(f, v)

NextDet == CallDet \/ Step \/ ReturnRemembered

SpecDet == Init /\ [][NextDet]_vars

\* History: a call of wang_hash11 that returns is remembered, to be compared
\* with later calls of wang_hash12.
RememberScalar ==
    /\ phase = "done"
    /\ fn = "wang_hash11"
    /\ ref = NoRef
    /\ phase' = "idle"
    /\ ref' = [fn |-> fn, input |-> input, out |-> out]
    /\ UNCHANGED <<nonHashVars, rmode, fn, input, key, pc, fold, mixed, callee, K, h, out, calls>>

\* Calls whose scalar and vec2 inputs have components from CrossKeys; vec3
\* and vec4 inputs from VecKeys.
CallCross ==
    \E f \in EntryPoints :
        \E v \in Vectors(Arity(f), IF Arity(f) <= 2 THEN CrossKeys ELSE VecKeys) :
            Call(f, v)

NextCross == CallCross \/ Step \/ RememberScalar

SpecCross == Init /\ [][NextCross]_vars

\* ------------------------------------------------------------------------
\* rot on its own
\* ------------------------------------------------------------------------

\* Words rot is called on: all ones, the top bit alone, the bottom bit
\* alone, bit 16 alone, and 0xdeadbeef.
RotWords ==
    { W(\hffff, \hffff), W(\h8000, \h0000), W(\h0000, \h0001),
      W(\h0001, \h0000), W(\hdead, \hbeef) }

\* Shifts rot is called with.
RotShifts == 1..31

\* rot(x, k) is called.
RotCall ==
    /\ rpc \in {"idle", "returned"}
    /\ \E x \in RotWords : \E k \in RotShifts :
            /\ rx' = x
            /\ rk' = k
    /\ ry' = Zero
    /\ rpc' = "called"
    /\ UNCHANGED nonRotVars

\* rot returns uint(x).shiftLeft(k).bitOr(uint(x).shiftRight(uint(32).sub(k))).
RotReturn ==
    /\ rpc = "called"
    /\ ry' = rot(rx, rk)
    /\ rpc' = "returned"
    /\ UNCHANGED <<nonRotVars, rx, rk>>

InitRot ==
    /\ HashIdle
    /\ rmode \in RoundingModes
    /\ RotIdle
    /\ NoneParked
    /\ BakeIdle
    /\ RampIdle
    /\ LoopRampIdle

NextRot == RotCall \/ RotReturn

SpecRot == InitRot /\ [][NextRot]_vars

\* ------------------------------------------------------------------------
\* Concurrent hash calls
\* ------------------------------------------------------------------------

\* Bound: how many calls are in flight besides the one that is stepping.
MaxParked == 1

\* The entry points called concurrently, and the input of each: between
\* them they run every routine.
ConcEntries == {"jenkins_hash14", "wang_hash12"}

ConcInput(f) == [i \in 1..Arity(f) |-> KeyPool[i + 1]]

\* Everything a call holds: its arguments, its position, and the uint
\* variables its routines create with toVar().  None of it is declared
\* outside the routines.
FrameNow ==
    [fn |-> fn, input |-> input, key |-> key, phase |-> phase, pc |-> pc,
     fold |-> fold, mixed |-> mixed, callee |-> callee, K |-> K, h |-> h,
     out |-> out, calls |-> calls]

IdleFrame ==
    [fn |-> "none", input |-> <<>>, key |-> <<>>, phase |-> "idle", pc |-> 1,
     fold |-> FoldLocals, mixed |-> NoABC, callee |-> NoABC, K |-> Zero, h |-> Zero,
     out |-> NoFloat, calls |-> <<>>]

\* Mutant of Resumed: A, B, C of jenkins_mix / jenkins_final are one set of
\* variables shared by all calls.
Resumed_shared_triple(f) == [f EXCEPT !.callee = callee]

\* What a call finds when it steps again: its own variables as it left them.
Resumed(f) == f

\* Another call takes the next step: the call that was stepping waits with
\* its variables, call i goes on with its own.
Switch(i) ==
    LET f == Resumed(parked[i])
    IN  /\ parked' = [parked EXCEPT ![i] = FrameNow]
        /\ fn' = f.fn
        /\ input' = f.input
        /\ key' = f.key
        /\ phase' = f.phase
        /\ pc' = f.pc
        /\ fold' = f.fold
        /\ mixed' = f.mixed
        /\ callee' = f.callee
        /\ K' = f.K
        /\ h' = f.h
        /\ out' = f.out
        /\ calls' = f.calls
        /\ UNCHANGED nonFrameVars

SwitchAny == \E i \in DOMAIN parked : Switch(i)

CallConc == \E f \in ConcEntries : Call(f, ConcInput(f))

\* The rounding direction is the platform's, the same for every call: the
\* concurrent calls run on a platform that rounds to nearest.
InitConc ==
    /\ HashIdle
    /\ rmode = "nearest"
    /\ RotIdle
    /\ BakeIdle
    /\ RampIdle
    /\ LoopRampIdle
    /\ parked = [i \in 1..MaxParked |-> IdleFrame]

NextConc == CallConc \/ Step \/ SwitchAny

SpecConc == InitConc /\ [][NextConc]_vars

\* ------------------------------------------------------------------------
\* Texture bake kernels (src/src/bake.js, write_texture2d_kernel)
\* ------------------------------------------------------------------------

\* Bound: the largest width and height of a target texture.
MaxSide == 3

BakeKernels == {"bake_texture2d", "write_texture2d_kernel"}

\* The larger of two numbers (node.max).
Max(a, b) == IF a >= b THEN a ELSE b

\* The texels of a width x height texture.
Texels(size) == (0..(size[1] - 1)) \X (0..(size[2] - 1))

\* Mutant of index2d: the row is the index divided by the height.
index2d_div_height(i, size) == <<i % size[1], i \div size[2]>>

\* index2d = vec2(instanceIndex.mod(width), instanceIndex.div(width)), on
\* the unsigned integer instanceIndex.
index2d(i, size) == <<i % size[1], i \div size[1]>>

\* Mutant of texture_bounds: the size itself, not the last index.
texture_bounds_size(kern, size) == <<Max(size[1], 1), Max(size[2], 1)>>

\* The divisor of the coordinate:
\*   bake_texture2d:         vec2(width - 1, height - 1), then .max(1)
\*   write_texture2d_kernel: vec2(width, height).sub(1).max(1)
texture_bounds(kern, size) ==
    IF kern = "bake_texture2d"
    THEN LET b == <<size[1] - 1, size[2] - 1>> IN <<Max(b[1], 1), Max(b[2], 1)>>
    ELSE LET v == <<size[1], size[2]>>
             d == <<v[1] - 1, v[2] - 1>>
         IN  <<Max(d[1], 1), Max(d[2], 1)>>

\* uv01 = index2d.div(bounds): the quotient of each component, kept as the
\* fraction num / den.
uv01(kern, i, size) ==
    LET ix == index2d(i, size)
        b  == texture_bounds(kern, size)
    IN  <<[num |-> ix[1], den |-> b[1]], [num |-> ix[2], den |-> b[2]]>>

\* The value callback of the model hands back the coordinate it is given.
value_fn(uv) == uv

\* textureStore(tex, uvec2(index2d), value): a store outside the texture is
\* dropped.
textureStore(store, size, at, value) ==
    IF at \in Texels(size) THEN [store EXCEPT ![at] = value] ELSE store

\* The kernel is built for a target texture and dispatched with
\* width * height invocations.
Dispatch ==
    /\ bkern = "none"
    /\ \E kern \in BakeKernels : \E w \in 1..MaxSide : \E ht \in 1..MaxSide :
            /\ bkern' = kern
            /\ bsize' = <<w, ht>>
            /\ bpending' = 0..((w * ht) - 1)
            /\ bstore' = [t \in Texels(<<w, ht>>) |-> <<>>]
            /\ bcount' = [t \in Texels(<<w, ht>>) |-> 0]
    /\ UNCHANGED nonBakeVars

\* One invocation runs, in any order relative to the others.
Invoke(i) ==
    LET at == index2d(i, bsize)
        v  == value_fn(uv01(bkern, i, bsize))
    IN  /\ i \in bpending
        /\ bpending' = bpending \ {i}
        /\ bstore' = textureStore(bstore, bsize, at, v)
        /\ bcount' = IF at \in Texels(bsize)
                      THEN [bcount EXCEPT ![at] = bcount[at] + 1]
                      ELSE bcount
        /\ UNCHANGED <<bkern, bsize, nonBakeVars>>

InvokeAny == \E i \in bpending : Invoke(i)

InitBake ==
    /\ HashIdle
    /\ rmode = "nearest"
    /\ RotIdle
    /\ NoneParked
    /\ BakeIdle
    /\ RampIdle
    /\ LoopRampIdle

NextBake == Dispatch \/ InvokeAny

SpecBake == InitBake /\ [][NextBake]_vars

\* ------------------------------------------------------------------------
\* The 3D bake kernel (write_texture3d_kernel)
\* ------------------------------------------------------------------------

\* Bound: the largest number of texels (width * height * depth) of a 3D
\* target texture.
MaxVoxels == 12

\* The sizes <<width, height, depth>> of the 3D target textures.
Sizes3d ==
    {sz \in (1..MaxVoxels) \X (1..MaxVoxels) \X (1..MaxVoxels) :
        sz[1] * sz[2] * sz[3] <= MaxVoxels}

\* The texels of a width x height x depth texture.
Texels3d(size) == (0..(size[1] - 1)) \X (0..(size[2] - 1)) \X (0..(size[3] - 1))

\* Mutant of index3d: the row is not reduced modulo the height.
index3d_row_unreduced(i, size) ==
    <<i % size[1], i \div size[1], i \div (size[1] * size[2])>>

\* index3d = vec3(instanceIndex.mod(width),
\*                instanceIndex.div(width).mod(height),
\*                instanceIndex.div(width * height)),
\* on the unsigned integer instanceIndex.
index3d(i, size) ==
    <<i % size[1], (i \div size[1]) % size[2], i \div (size[1] * size[2])>>

\* bounds = vec3(width, height, depth).sub(1).max(1)
bounds3d(size) ==
    LET v == <<size[1], size[2], size[3]>>
        d == <<v[1] - 1, v[2] - 1, v[3] - 1>>
    IN  <<Max(d[1], 1), Max(d[2], 1), Max(d[3], 1)>>

\* uvw01 = index3d.div(bounds): the quotient of each component, kept as the
\* fraction num / den.
uvw01(i, size) ==
    LET ix == index3d(i, size)
        b  == bounds3d(size)
    IN  [a \in 1..3 |-> [num |-> ix[a], den |-> b[a]]]

\* textureStore(tex, uvec3(index3d), value): a store outside the texture is
\* dropped.
textureStore3d(store, size, at, value) ==
    IF at \in Texels3d(size) THEN [store EXCEPT ![at] = value] ELSE store

\* The kernel is built for a 3D target texture and dispatched with
\* width * height * depth invocations.
Dispatch3d ==
    /\ bkern = "none"
    /\ \E sz \in Sizes3d :
            /\ bkern' = "write_texture3d_kernel"
            /\ bsize' = sz
            /\ bpending' = 0..((sz[1] * sz[2] * sz[3]) - 1)
            /\ bstore' = [t \in Texels3d(sz) |-> <<>>]
            /\ bcount' = [t \in Texels3d(sz) |-> 0]
    /\ UNCHANGED nonBakeVars

\* One invocation runs, in any order relative to the others.
Invoke3d(i) ==
    LET at == index3d(i, bsize)
        v  == value_fn(uvw01(i, bsize))
    IN  /\ bkern = "write_texture3d_kernel"
        /\ i \in bpending
        /\ bpending' = bpending \ {i}
        /\ bstore' = textureStore3d(bstore, bsize, at, v)
        /\ bcount' = IF at \in Texels3d(bsize)
                      THEN [bcount EXCEPT ![at] = bcount[at] + 1]
                      ELSE bcount
        /\ UNCHANGED <<bkern, bsize, nonBakeVars>>

InvokeAny3d == \E i \in bpending : Invoke3d(i)

NextBake3d == Dispatch3d \/ InvokeAny3d

SpecBake3d == InitBake /\ [][NextBake3d]_vars

\* ------------------------------------------------------------------------
\* color_ramp_linear (src/src/color.js)
\* ------------------------------------------------------------------------

\* Bound: the largest number of stops passed.
MaxStops == 3

\* Positions and colors (one channel) of the stops passed, and the values
\* of fac in halves of a position unit: below, at, between and above the
\* positions.
RampPositions == 0..2

RampColors == {0, 1}

RampFacs == (-1)..5

\* The arrays of stops [pos, color] a caller passes.
StopLists == UNION {[1..n -> RampPositions \X RampColors] : n \in 0..MaxStops}

\* A float or color value is the fraction num / den in lowest terms.
Num(n) == [num |-> n, den |-> 1]

\* What an absent array element reads as.
Undefined == [num |-> -1, den |-> 0]

RECURSIVE GCD(_, _)
GCD(a, b) == IF b = 0 THEN a ELSE GCD(b, a % b)

Reduce(n, d) ==
    LET g == GCD(IF n < 0 THEN -n ELSE n, d)
    IN  [num |-> n \div g, den |-> d \div g]

\* stops.map((x) => [float(x[0]), color(x[1])]): a new array of nodes; the
\* float node keeps the number in .value.
MapStops(stops) ==
    [i \in 1..Len(stops) |-> <<[value |-> stops[i][1]], Num(stops[i][2])>>]

\* Mutant of toSorted: the stops are taken in the order passed.
toSorted_unsorted(stops) == stops

\* stops.toSorted((a, b) => a[0].value - b[0].value): a new array, sorted
\* by position; the sort is stable, stops of equal position keep the order
\* they were passed in.
RECURSIVE SortPrefix(_, _)
SortPrefix(stops, n) ==
    IF n = 0 THEN <<>>
    ELSE LET done == SortPrefix(stops, n - 1)
             x    == stops[n]
             k    == Cardinality({j \in 1..Len(done) : done[j][1].value - x[1].value <= 0})
         IN  SubSeq(done, 1, k) \o <<x>> \o SubSeq(done, k + 1, Len(done))

toSorted(stops) == SortPrefix(stops, Len(stops))

\* fac.sub(p0).div(p1.sub(p0)).clamp(0, 1), with fac in halves.  A zero
\* divisor gives an infinity, clamped to 0 or 1, or 0/0, whose clamp is the
\* platform's (nan).
ClampedRatio(f, p0, p1, nan) ==
    LET n == f - (2 * p0)
        d == 2 * (p1 - p0)
        sn == IF d < 0 THEN -n ELSE n
        sd == IF d < 0 THEN -d ELSE d
    IN  IF d = 0 THEN (IF n > 0 THEN Num(1) ELSE IF n < 0 THEN Num(0) ELSE nan)
        ELSE IF sn <= 0 THEN Num(0)
        ELSE IF sn >= sd THEN Num(1)
        ELSE Reduce(sn, sd)

\* mix(c0, c1, t) = c0 * (1 - t) + c1 * t
mix(c0, c1, t) ==
    IF c0 = NaN \/ c1 = NaN \/ t = NaN THEN NaN
    ELSE Reduce((c0.num * (t.den - t.num) * c1.den) + (c1.num * t.num * c0.den),
                c0.den * t.den * c1.den)

\* colors[0] of the sorted stops.
FirstColor(sorted) == IF Len(sorted) = 0 THEN Undefined ELSE sorted[1][2]

\* The body of the loop for index i (from 0).
LoopBody(sorted, i, c, f, nan) ==
    LET p0     == sorted[i + 1][1]
        p1     == sorted[i + 2][1]
        color1 == sorted[i + 2][2]
        t      == ClampedRatio(f, p0.value, p1.value, nan)
    IN  mix(c, color1, t)

RECURSIVE LoopUpTo(_, _, _, _)
LoopUpTo(sorted, n, f, nan) ==
    IF n = 0 THEN FirstColor(sorted)
    ELSE LoopBody(sorted, n - 1, LoopUpTo(sorted, n - 1, f, nan), f, nan)

\* color_ramp_linear(stops, fac) as a whole.
color_ramp_linear(stops, f, nan) ==
    LET sorted == toSorted(MapStops(stops))
    IN  LoopUpTo(sorted, IF Len(stops) = 0 THEN 0 ELSE Len(stops) - 1, f, nan)

\* color_ramp_linear(stops, fac) is called.
RampCall ==
    /\ ramp_pc = "idle"
    /\ ramp_stops' \in StopLists
    /\ ramp_fac' \in RampFacs
    /\ ramp_pc' = "called"
    /\ UNCHANGED <<ramp_local, ramp_sorted, ramp_i, ramp_color, ramp_nan, nonRampVars>>

\* stops = stops.map(...)
RampMap ==
    /\ ramp_pc = "called"
    /\ ramp_local' = MapStops(ramp_stops)
    /\ ramp_pc' = "mapped"
    /\ UNCHANGED <<ramp_stops, ramp_fac, ramp_sorted, ramp_i, ramp_color, ramp_nan, nonRampVars>>

\* const sorted_stops = stops.toSorted(...)
RampSort ==
    /\ ramp_pc = "mapped"
    /\ ramp_sorted' = toSorted(ramp_local)
    /\ ramp_pc' = "sorted"
    /\ UNCHANGED <<ramp_stops, ramp_fac, ramp_local, ramp_i, ramp_color, ramp_nan, nonRampVars>>

\* positions, colors; let color = colors[0]; i = 0
RampFirst ==
    /\ ramp_pc = "sorted"
    /\ ramp_color' = FirstColor(ramp_sorted)
    /\ ramp_i' = 0
    /\ ramp_pc' = "loop"
    /\ UNCHANGED <<ramp_stops, ramp_fac, ramp_local, ramp_sorted, ramp_nan, nonRampVars>>

\* One iteration: i < stops.length - 1
RampLoop ==
    /\ ramp_pc = "loop"
    /\ ramp_i < Len(ramp_local) - 1
    /\ ramp_color' = LoopBody(ramp_sorted, ramp_i, ramp_color, ramp_fac, ramp_nan)
    /\ ramp_i' = ramp_i + 1
    /\ UNCHANGED <<ramp_stops, ramp_fac, ramp_local, ramp_sorted, ramp_pc, ramp_nan, nonRampVars>>

\* return color
RampReturn ==
    /\ ramp_pc = "loop"
    /\ ~(ramp_i < Len(ramp_local) - 1)
    /\ ramp_pc' = "done"
    /\ UNCHANGED <<ramp_stops, ramp_fac, ramp_local, ramp_sorted, ramp_i, ramp_color,
                   ramp_nan, nonRampVars>>

InitRamp ==
    /\ HashIdle
    /\ rmode = "nearest"
    /\ RotIdle
    /\ NoneParked
    /\ BakeIdle
    /\ LoopRampIdle
    /\ ramp_stops = <<>>
    /\ ramp_fac = 0
    /\ ramp_local = <<>>
    /\ ramp_sorted = <<>>
    /\ ramp_i = 0
    /\ ramp_color = NaN
    /\ ramp_pc = "idle"
    /\ ramp_nan \in {Num(0), Num(1), NaN}

NextRamp == RampCall \/ RampMap \/ RampSort \/ RampFirst \/ RampLoop \/ RampReturn

SpecRamp == InitRamp /\ [][NextRamp]_vars

\* ------------------------------------------------------------------------
\* color_ramp, the array and loop variant (src/src/color_ramp.js)
\* ------------------------------------------------------------------------

\* Bound: the largest number of stops passed.
MaxSize == 3

\* Offsets of the stops passed, and the values of fac: in halves of an
\* offset unit below, at, between and above the offsets, and not a number.
LoopOffsets == 0..2

LoopFacs ==
    {[nan |-> FALSE, halves |-> v] : v \in (-1)..5} \cup {[nan |-> TRUE, halves |-> 0]}

LoopModes == {"linear", "constant"}

\* The arrays of stops [offset, color] a caller passes, in any order of
\* offsets; the color of the stop at index e (from 0) is the value e.
ColorStopLists ==
    UNION {{[j \in 1..n |-> <<o[j], Num(j - 1)>>] : o \in [1..n -> LoopOffsets]} :
                n \in 1..MaxSize}

\* const SIZE = colorstops.length
SIZE(stops) == Len(stops)

\* array(colorstops.map((x) => x[0])), array(colorstops.map((x) => x[1]))
offsets(stops) == [j \in 1..Len(stops) |-> stops[j][1]]

colors(stops) == [j \in 1..Len(stops) |-> stops[j][2]]

\* The index word ix is an index of the array arr.
InRange(arr, ix) == ix[1] = 0 /\ ix[2] < Len(arr)

\* arr.element(ix): the values the read can give.  The index is a 32-bit
\* unsigned word; a read outside the array gives the value of some element
\* of it, which one is the platform's choice.
element(arr, ix) ==
    IF InRange(arr, ix) THEN {arr[ix[2] + 1]} ELSE {arr[j] : j \in DOMAIN arr}

\* fac.lessThanEqual(offset): false when fac is not a number.
lessThanEqual(f, o) == ~f.nan /\ f.halves <= 2 * o

\* fac.remap(lo, hi) = (fac - lo) / (hi - lo), not clamped.  A zero divisor
\* gives an infinity or 0/0: a value that is not a number of the model.
remap(f, lo, hi) ==
    LET n  == f.halves - (2 * lo)
        d  == 2 * (hi - lo)
        sn == IF d < 0 THEN -n ELSE n
        sd == IF d < 0 THEN -d ELSE d
    IN  IF f.nan \/ d = 0 THEN NaN ELSE Reduce(sn, sd)

\* { linear: 0, constant: 1 }[mode]
u_mode(m) == IF m = "linear" THEN 0 ELSE 1

\* Mutant of HasLayout: the function is left inline.
HasLayout_inline == FALSE

\* .setLayout({ type: 'color', name, inputs }): the function is emitted as
\* a function of its own.
HasLayout == TRUE

\* If(cond, () => value) as a statement: in a function with a layout it
\* returns value when cond holds; in an inline function the value is
\* dropped and the statements that follow run.
IfReturns(cond) == HasLayout /\ cond

\* color_ramp(colorstops, mode): builds the function and names it after the
\* counter, which it increments.
RampBuild ==
    /\ cr_pc = "idle"
    /\ dispatched_count = 0
    /\ cr_colorstops' \in ColorStopLists
    /\ cr_mode' \in LoopModes
    /\ dispatched_count' = dispatched_count + 1
    /\ cr_pc' = "built"
    /\ UNCHANGED <<cr_fac, cr_i, i_end, i_start, cr_out, cr_via, cr_reads, nonLoopRampVars>>

\* The function is evaluated for a value of fac:
\* const i_end = uint(SIZE).toVar('i_end'); the loop starts at i = 0.
RampEval ==
    /\ cr_pc = "built"
    /\ cr_fac' \in LoopFacs
    /\ i_end' = WNat(SIZE(cr_colorstops))
    /\ cr_i' = 0
    /\ cr_pc' = "loop"
    /\ UNCHANGED <<dispatched_count, cr_colorstops, cr_mode, i_start, cr_out, cr_via,
                   cr_reads, nonLoopRampVars>>

\* One iteration of Loop(SIZE, ...): If(fac <= offsets[i]) { i_end = i; Break }
LoopIteration ==
    /\ cr_pc = "loop"
    /\ cr_i < SIZE(cr_colorstops)
    /\ cr_reads' = cr_reads \cup {<<"offsets", WNat(cr_i)>>}
    /\ \E o \in element(offsets(cr_colorstops), WNat(cr_i)) :
            IF lessThanEqual(cr_fac, o)
            THEN /\ i_end' = WNat(cr_i)
                 /\ cr_pc' = "if_first"
                 /\ UNCHANGED cr_i
            ELSE /\ cr_i' = cr_i + 1
                 /\ UNCHANGED <<i_end, cr_pc>>
    /\ UNCHANGED <<dispatched_count, cr_colorstops, cr_mode, cr_fac, i_start, cr_out,
                   cr_via, nonLoopRampVars>>

\* The loop ends after SIZE iterations.
LoopEnd ==
    /\ cr_pc = "loop"
    /\ ~(cr_i < SIZE(cr_colorstops))
    /\ cr_pc' = "if_first"
    /\ UNCHANGED <<dispatched_count, cr_colorstops, cr_mode, cr_fac, cr_i, i_end, i_start,
                   cr_out, cr_via, cr_reads, nonLoopRampVars>>

\* If(i_end.equal(0), () => colors.element(0))
IfFirst ==
    /\ cr_pc = "if_first"
    /\ IF IfReturns(i_end = WNat(0))
       THEN /\ cr_out' \in element(colors(cr_colorstops), WNat(0))
            /\ cr_reads' = cr_reads \cup {<<"colors", WNat(0)>>}
            /\ cr_via' = "first"
            /\ cr_pc' = "done"
       ELSE /\ cr_pc' = "if_last"
            /\ UNCHANGED <<cr_out, cr_reads, cr_via>>
    /\ UNCHANGED <<dispatched_count, cr_colorstops, cr_mode, cr_fac, cr_i, i_end, i_start,
                   nonLoopRampVars>>

\* If(i_end.equal(SIZE), () => colors.element(SIZE - 1))
IfLast ==
    /\ cr_pc = "if_last"
    /\ IF IfReturns(i_end = WNat(SIZE(cr_colorstops)))
       THEN /\ cr_out' \in element(colors(cr_colorstops), WNat(SIZE(cr_colorstops) - 1))
            /\ cr_reads' = cr_reads \cup {<<"colors", WNat(SIZE(cr_colorstops) - 1)>>}
            /\ cr_via' = "last"
            /\ cr_pc' = "done"
       ELSE /\ cr_pc' = "i_start"
            /\ UNCHANGED <<cr_out, cr_reads, cr_via>>
    /\ UNCHANGED <<dispatched_count, cr_colorstops, cr_mode, cr_fac, cr_i, i_end, i_start,
                   nonLoopRampVars>>

\* const i_start = i_end.sub(1).toConst('i_start'), unsigned
SetStart ==
    /\ cr_pc = "i_start"
    /\ i_start' = WSub(i_end, WNat(1))
    /\ cr_pc' = "if_mode"
    /\ UNCHANGED <<dispatched_count, cr_colorstops, cr_mode, cr_fac, cr_i, i_end, cr_out,
                   cr_via, cr_reads, nonLoopRampVars>>

\* If(u_mode.equal(1), () => colors.element(i_start))
IfConstant ==
    /\ cr_pc = "if_mode"
    /\ IF IfReturns(u_mode(cr_mode) = 1)
       THEN /\ cr_out' \in element(colors(cr_colorstops), i_start)
            /\ cr_reads' = cr_reads \cup {<<"colors", i_start>>}
            /\ cr_via' = "constant"
            /\ cr_pc' = "done"
       ELSE /\ cr_pc' = "mix"
            /\ UNCHANGED <<cr_out, cr_reads, cr_via>>
    /\ UNCHANGED <<dispatched_count, cr_colorstops, cr_mode, cr_fac, cr_i, i_end, i_start,
                   nonLoopRampVars>>

\* return mix(colors[i_start], colors[i_end],
\*            fac.remap(offsets[i_start], offsets[i_end]))
ReturnMixed ==
    /\ cr_pc = "mix"
    /\ \E c0 \in element(colors(cr_colorstops), i_start) :
       \E c1 \in element(colors(cr_colorstops), i_end) :
       \E lo \in element(offsets(cr_colorstops), i_start) :
       \E hi \in element(offsets(cr_colorstops), i_end) :
            cr_out' = mix(c0, c1, remap(cr_fac, lo, hi))
    /\ cr_reads' = cr_reads \cup {<<"colors", i_start>>, <<"colors", i_end>>,
                                  <<"offsets", i_start>>, <<"offsets", i_end>>}
    /\ cr_via' = "linear"
    /\ cr_pc' = "done"
    /\ UNCHANGED <<dispatched_count, cr_colorstops, cr_mode, cr_fac, cr_i, i_end, i_start,
                   nonLoopRampVars>>

InitLoopRamp ==
    /\ HashIdle
    /\ rmode = "nearest"
    /\ RotIdle
    /\ NoneParked
    /\ BakeIdle
    /\ RampIdle
    /\ LoopRampIdle

NextLoopRamp ==
    \/ RampBuild
    \/ RampEval
    \/ LoopIteration
    \/ LoopEnd
    \/ IfFirst
    \/ IfLast
    \/ SetStart
    \/ IfConstant
    \/ ReturnMixed

SpecLoopRamp == InitLoopRamp /\ [][NextLoopRamp]_vars

\* ------------------------------------------------------------------------
\* Properties
\* ------------------------------------------------------------------------

JenkinsDone == phase = "done" /\ fn \in JenkinsEntries

WangDone == phase = "done" /\ fn \in WangEntries

InCalls(r) == \E i \in DOMAIN calls : calls[i] = r

AllOnes == W(\hffff, \hffff)

\* C1 as stated: the value jenkins_hashN returns for the folded word is in
\* [0, 1], exactly 0 only when the folded word is 0 and exactly 1 only when
\* the folded word is 0xffffffff.
C1_AsStated ==
    JenkinsDone =>
        /\ WideLeq(out.num, out.den)
        /\ (out.num = Zero => h = Zero)
        /\ (out.num = out.den => h = AllOnes)

\* C1 (amended): jenkins_hashN returns the single-precision conversion of
\* foldN(words) divided by 2^32 (what 4294967295 is as a single): a value
\* in [0, 1] that differs from foldN(words) / 2^32 by less than 256 / 2^32,
\* exactly 0 only when the folded word is 0, and exactly 1 only when the
\* folded word is at least 0xffffff01; where the conversion rounds to
\* nearest, it is exactly 1 for every folded word from 0xffffff80 on.
C1_JenkinsRange ==
    JenkinsDone =>
        /\ out.den = TwoTo32
        /\ WideLeq(out.num, out.den)
        /\ WideLess(IF WideLess(h, out.num) THEN WideSub(out.num, h)
                    ELSE WideSub(h, out.num), W(0, 256))
        /\ (out.num = Zero => h = Zero)
        /\ (out.num = out.den => WideLeq(W(\hffff, \hff01), h))
        /\ (rmode = "nearest" => (out.num = out.den <=> WideLeq(W(\hffff, \hff80), h)))

\* C1 witness: a jenkins hash that is exactly 1 on a folded word other than
\* 0xffffffff.
C1_Witness ==
    /\ JenkinsDone
    /\ out.num = out.den
    /\ h # AllOnes

\* C2: every wang_hashN returns a value in [0, 1): the mixed word as a
\* float, divided by 4294967296 and reduced to its fractional part, is >= 0
\* and < 1.
C2_WangRange ==
    WangDone =>
        /\ out.den = TwoTo32
        /\ WideLeq(Zero, out.num)
        /\ WideLess(out.num, out.den)

\* C2 witness: a wang hash whose mixed word converts to the float 2^32, so
\* that the quotient is 1 and only its fractional part is below 1.
C2_Witness ==
    /\ WangDone
    /\ ToFloat(K, rmode) = TwoTo32
    /\ out.num = Zero

\* C3: a call of an entry point returns what an earlier call of the same
\* entry point on the same input bit patterns returned, whatever was called
\* before or in between.
C3_Deterministic ==
    (phase = "done" /\ ref.fn = fn /\ ref.input = input) => out = ref.out

\* C3 witness: a second call of a remembered entry point and input has
\* completed.
C3_Witness ==
    /\ phase = "done"
    /\ ref # NoRef
    /\ ref.fn = fn
    /\ ref.input = input
    /\ Len(input) = 4

\* One step of jenkins_final as the specification lists it:
\* t ^= o; t -= rot(o, k), the subtraction wrapping modulo 2^32.
XorThenSubRot(r, t, o, k) ==
    LET x == [r EXCEPT ![t] = WXor(r[t], r[o])]
    IN  [x EXCEPT ![t] = WSub(x[t], rot(x[o], k))]

\* The seven steps of jenkins_final, in the listed order.
FinalSchedule ==
    << <<"C", "B", 14>>, <<"A", "C", 11>>, <<"B", "A", 25>>, <<"C", "B", 16>>,
       <<"A", "C", 4>>,  <<"B", "A", 14>>, <<"C", "B", 24>> >>

RECURSIVE FinalAfter(_, _)
FinalAfter(r, j) ==
    IF j = 0 THEN r
    ELSE XorThenSubRot(FinalAfter(r, j - 1),
                       FinalSchedule[j][1], FinalSchedule[j][2], FinalSchedule[j][3])

\* C4: jenkins_final maps its argument triple to the triple obtained by the
\* seven listed steps in order: after each pair of its statements the state
\* is the listed steps so far applied to the arguments, and it returns the
\* result of all seven.
C4_FinalSteps ==
    /\ (phase = "final" /\ pc % 2 = 1 /\ pc <= Len(jenkins_final_body) + 1)
            => callee = FinalAfter(FinalArgs, pc \div 2)
    /\ (phase = "final" /\ pc > Len(jenkins_final_body))
            => callee = FinalAfter(FinalArgs, 7)
    /\ (phase = "folded") => h = FinalAfter(FinalArgs, 7).C

\* C4 witness: jenkins_final has run all its statements on a triple of
\* three different words.
C4_Witness ==
    /\ phase = "final"
    /\ pc = Len(jenkins_final_body) + 1
    /\ FinalArgs.A # FinalArgs.B
    /\ FinalArgs.B # FinalArgs.C
    /\ callee = FinalAfter(FinalArgs, 7)

\* One step pair of jenkins_mix as the specification words it: subtract one
\* word from another, then XOR with a rotation (of the subtracted word).
SubThenXorRot(r, t, o, k) ==
    LET x == [r EXCEPT ![t] = WSub(r[t], r[o])]
    IN  [x EXCEPT ![t] = WXor(x[t], rot(x[o], k))]

\* The same followed by the addition the code makes after each pair: the
\* remaining word is added to the subtracted word.
SubXorRotThenAdd(r, t, o, k, u) ==
    LET x == SubThenXorRot(r, t, o, k)
    IN  [x EXCEPT ![o] = WAdd(x[o], x[u])]

\* Target, subtracted word, shift and remaining word of each round of
\* jenkins_mix: the three words twice, shifts 4, 6, 8, 16, 19, 4.
MixSchedule ==
    << <<"A", "C", 4, "B">>,  <<"B", "A", 6, "C">>,  <<"C", "B", 8, "A">>,
       <<"A", "C", 16, "B">>, <<"B", "A", 19, "C">>, <<"C", "B", 4, "A">> >>

RECURSIVE MixPairsAfter(_, _)
MixPairsAfter(r, j) ==
    IF j = 0 THEN r
    ELSE SubThenXorRot(MixPairsAfter(r, j - 1),
                       MixSchedule[j][1], MixSchedule[j][2], MixSchedule[j][3])

RECURSIVE MixRoundsAfter(_, _)
MixRoundsAfter(r, j) ==
    IF j = 0 THEN r
    ELSE SubXorRotThenAdd(MixRoundsAfter(r, j - 1),
                          MixSchedule[j][1], MixSchedule[j][2],
                          MixSchedule[j][3], MixSchedule[j][4])

\* The arguments of jenkins_fold4's call of jenkins_mix.
MixArgs == ABC(fold.a, fold.b, fold.c)

\* C5 as stated: jenkins_mix is made of step pairs 'subtract, then XOR with
\* a rotation' only, with the shift schedule 4, 6, 8, 16, 19, 4, and its
\* result is the composition of those step pairs.
C5_AsStated ==
    (phase = "mix" /\ pc > Len(jenkins_mix_body))
        => callee = MixPairsAfter(MixArgs, Len(MixSchedule))

\* C5 (amended): jenkins_mix transforms (a, b, c) by six sequential rounds
\* of three statements each (eighteen statements), cycling through the three
\* words twice: subtract one word from another, XOR the result with a
\* rotation of the subtracted word, then add the remaining word to the
\* subtracted word; the shifts are 4, 6, 8, 16, 19, 4 in that order, and
\* its result is the composition of those rounds.
C5_MixRounds ==
    /\ Len(jenkins_mix_body) = 3 * Len(MixSchedule)
    /\ (phase = "mix" /\ pc % 3 = 1 /\ pc <= Len(jenkins_mix_body) + 1)
            => callee = MixRoundsAfter(MixArgs, pc \div 3)
    /\ (phase = "tail" /\ pc = 1) => mixed = MixRoundsAfter(MixArgs, 6)

\* C5 witness: jenkins_mix has run all its statements.
C5_Witness ==
    /\ phase = "mix"
    /\ pc = Len(jenkins_mix_body) + 1
    /\ callee = MixRoundsAfter(MixArgs, 6)
    /\ callee # MixPairsAfter(MixArgs, 6)

\* The seed of each arity as the specification gives it.
SeedWord(n) ==
    CASE n = 1 -> W(\hdead, \hbf00)
      [] n = 2 -> W(\hdead, \hbf04)
      [] n = 3 -> W(\hdead, \hbf08)
      [] n = 4 -> W(\hdead, \hbf0c)

\* fold4 as the specification orders it.
Fold4Stated(k) ==
    LET a1 == WAdd(SeedWord(4), k[1])
        b1 == WAdd(SeedWord(4), k[2])
        a2 == WAdd(a1, k[3])
        m  == jenkins_mix(a2, b1, SeedWord(4))
        A1 == WAdd(m.A, k[4])
    IN  jenkins_final(A1, m.B, m.C).C

\* C6: jenkins_fold4 seeds a = b = c, adds kx to a, ky to b, kz to a, runs
\* jenkins_mix, adds kw to A and returns the third word of jenkins_final;
\* and jenkins_mix runs in the evaluation of the 4-word fold only (entry
\* points jenkins_hash14 and wang_hash14), never in that of fold1..3.
C6_Fold4 ==
    /\ (phase = "folded" /\ Len(key) = 4) => h = Fold4Stated(key)
    /\ (phase = "folded" /\ Len(key) = 4)
            => calls = <<"jenkins_fold4", "jenkins_mix", "jenkins_final">>
    /\ (phase = "mix" \/ InCalls("jenkins_mix"))
            => (fn \in {"jenkins_hash14", "wang_hash14"} /\ calls[1] = "jenkins_fold4")
    /\ (phase \in {"folded", "done"} /\ Len(key) < 4) => ~InCalls("jenkins_mix")

\* C6 witness: the 4-word fold has returned, on four different key words.
C6_Witness ==
    /\ phase = "folded"
    /\ Len(key) = 4
    /\ key[1] # key[3]
    /\ key[2] # key[4]
    /\ h = Fold4Stated(key)

\* fold1..3 as the specification orders them.
FoldStated(k) ==
    LET n == Len(k)
        s == SeedWord(n)
        a == WAdd(s, k[1])
        b == IF n >= 2 THEN WAdd(s, k[2]) ELSE s
        c == IF n >= 3 THEN WAdd(s, k[3]) ELSE s
    IN  ABC(a, b, c)

\* C7: for N = 1..3, foldN returns the third word of jenkins_final applied
\* to the seeded triple after the additions of its arity; the words the
\* arity does not name hold the seed when jenkins_final starts.
C7_Fold123 ==
    /\ (phase = "final" /\ pc = 1 /\ Len(key) <= 3) => callee = FoldStated(key)
    /\ (phase = "folded" /\ Len(key) <= 3)
            => LET r == FoldStated(key) IN h = jenkins_final(r.A, r.B, r.C).C
    /\ (phase = "folded" /\ Len(key) <= 3)
            => calls = <<FoldName(Len(key)), "jenkins_final">>

\* C7 witness: the 2-word fold has returned, on two different key words.
C7_Witness ==
    /\ phase = "folded"
    /\ Len(key) = 2
    /\ key[1] # key[2]
    /\ fold.c = SeedWord(2)

\* Index of the first statement of a fold body that adds a key word.
FirstKeyStmt(body) ==
    CHOOSE i \in DOMAIN body :
        /\ body[i].op = "addkey"
        /\ \A j \in 1..(i - 1) : body[j].op # "addkey"

\* C8: in every foldN, before any key word is added, a = b = c =
\* 0xdeadbeef + (N << 2) + 13, that is 0xdeadbf00, 0xdeadbf04, 0xdeadbf08,
\* 0xdeadbf0c for N = 1, 2, 3, 4.
C8_Seed ==
    (phase = "fold" /\ pc = FirstKeyStmt(FoldBody(Len(key))))
        => /\ fold.a = SeedWord(Len(key))
           /\ fold.b = SeedWord(Len(key))
           /\ fold.c = SeedWord(Len(key))

\* C8 witness: the 4-word fold is about to add its first key word.
C8_Witness ==
    /\ phase = "fold"
    /\ Len(key) = 4
    /\ pc = FirstKeyStmt(jenkins_fold4_body)
    /\ fold.a = W(\hdead, \hbf0c)

\* The integer part of wang_hash in the specification's sequential form:
\* k ^= 61; k ^= (k >> 16); k *= 9; k ^= (k >> 4); k *= 0x27d4eb2d;
\* k ^= (k >> 15).
WangSequential(k) ==
    LET k1 == WXor(k, WNat(61))
        k2 == WXor(k1, WShr(k1, 16))
        k3 == WMul(k2, 9)
        k4 == WXor(k3, WShr(k3, 4))
        k5 == WMul(k4, \h27d4eb2d)
    IN  WXor(k5, WShr(k5, 15))

\* The word wang_hash was called with.
WangArg == IF EntryUsesFold(fn) THEN h ELSE key[1]

\* C9: the word K that wang_hash computes equals the word of the
\* specification's sequential form on the same input word.
C9_WangSequential ==
    (phase = "wang" /\ pc > Len(wang_hash_body)) => K = WangSequential(WangArg)

\* C9 witness: wang_hash has run its integer statements on an input word
\* with bits set above and below bit 16.
C9_Witness ==
    /\ phase = "wang"
    /\ pc = Len(wang_hash_body) + 1
    /\ WangArg[1] # 0
    /\ WangArg[2] # 0
    /\ K = WangSequential(WangArg)

\* C10: wang_hash11 is wang_hash of the bit pattern of k; wang_hashN for
\* N = 2, 3, 4 is wang_hash of jenkins_foldN of the component bit patterns
\* in x, y, z, w order; wang_hash runs once per call, never per component.
C10_WangEntries ==
    WangDone =>
        /\ Len(input) = 1 => out = wang_hash(input[1], rmode)
        /\ Len(input) = 2 =>
                out = wang_hash(jenkins_fold(<<input[1], input[2]>>), rmode)
        /\ Len(input) = 3 =>
                out = wang_hash(jenkins_fold(<<input[1], input[2], input[3]>>), rmode)
        /\ Len(input) = 4 =>
                out = wang_hash(jenkins_fold(<<input[1], input[2], input[3], input[4]>>), rmode)
        /\ Cardinality({i \in DOMAIN calls : calls[i] = "wang_hash"}) = 1
        /\ calls[Len(calls)] = "wang_hash"
        /\ (Len(input) = 1 <=> calls = <<"wang_hash">>)
        /\ (Len(input) > 1 => calls[1] = FoldName(Len(input)))

\* C10 witness: wang_hash13 has returned, on components that are not all
\* the same.
C10_Witness ==
    /\ WangDone
    /\ fn = "wang_hash13"
    /\ input[1] # input[3]
    /\ calls = <<"jenkins_fold3", "jenkins_final", "wang_hash">>

\* wang_hash12([x, 0]) has returned after a call of wang_hash11(x) that is
\* remembered.
CrossPair ==
    /\ phase = "done"
    /\ fn = "wang_hash12"
    /\ input[2] = Zero
    /\ ref.fn = "wang_hash11"
    /\ ref.input = <<input[1]>>

\* The float wang_hash returns for the input word k, as a numerator over 2^32.
WangFloat(k) == FractNum(ToFloat(wang_word(k), rmode), TwoTo32)

BitOf(x, i) ==
    IF i >= 16 THEN (x[1] \div Pow2(i - 16)) % 2 ELSE (x[2] \div Pow2(i)) % 2

\* C12: rot(x, k) is the 32-bit left rotation: a 32-bit word whose bit
\* (i + k) mod 32 is bit i of x; so rot(0xFFFFFFFF, k) = 0xFFFFFFFF for
\* every k in 1..31, and rot(0x80000000, 1) = 1.
C12_RotWraps ==
    rpc = "returned" =>
        /\ IsWord(ry)
        /\ \A i \in 0..31 : BitOf(ry, (i + rk) % 32) = BitOf(rx, i)
        /\ (rx = W(\hffff, \hffff) => ry = W(\hffff, \hffff))
        /\ ((rx = W(\h8000, \h0000) /\ rk = 1) => ry = W(\h0000, \h0001))

\* C12 witness: rot(0x80000000, 1) has returned 1.
C12_Witness ==
    /\ rpc = "returned"
    /\ rx = W(\h8000, \h0000)
    /\ rk = 1
    /\ ry = W(\h0000, \h0001)

\* A word from its 32 bits b[0] (lowest) .. b[31].
RECURSIVE BitSum(_, _, _)
BitSum(b, from, n) ==
    IF n = 0 THEN 0 ELSE b[from] + 2 * BitSum(b, from + 1, n - 1)

FromBits(b) == W(BitSum(b, 16, 16), BitSum(b, 0, 16))

\* x + y by a 32-bit ripple-carry adder: the carry out of bit 31 is dropped,
\* which is x + y modulo 2^32.
AddBits(x, y) ==
    LET c[i \in 0..31] ==
            IF i = 0 THEN 0
            ELSE IF BitOf(x, i - 1) + BitOf(y, i - 1) + c[i - 1] >= 2 THEN 1 ELSE 0
    IN  FromBits([i \in 0..31 |-> (BitOf(x, i) + BitOf(y, i) + c[i]) % 2])

XorBits(x, y) == FromBits([i \in 0..31 |-> (BitOf(x, i) + BitOf(y, i)) % 2])

\* x << k: bit i of x moves to bit i + k, the bits above bit 31 are dropped.
ShlBits(x, k) == FromBits([i \in 0..31 |-> IF i >= k THEN BitOf(x, i - k) ELSE 0])

\* x >> k: bit i + k of x moves to bit i, zeros enter at the top.
ShrBits(x, k) == FromBits([i \in 0..31 |-> IF i + k <= 31 THEN BitOf(x, i + k) ELSE 0])

\* The 32-bit left rotation: bit i of x moves to bit (i + k) mod 32.
RotBits(x, k) == FromBits([i \in 0..31 |-> BitOf(x, (i + 32 - k) % 32)])

\* Byte i (0 = lowest) of a natural below 2^32.
ByteOf(n, i) == (n \div (256^i)) % 256

\* x * c modulo 2^32 by long multiplication on bytes: the products of byte
\* i of x and byte j of c with i + j <= 3 are summed by column, and what
\* would land above bit 31 is dropped.
MulBytes(x, c) ==
    LET xb(i)  == IF i >= 2 THEN ByteOf(x[1], i - 2) ELSE ByteOf(x[2], i)
        col(n) == LET term[i \in 0..n] == xb(i) * ByteOf(c, n - i)
                  IN  IF n = 0 THEN term[0]
                      ELSE IF n = 1 THEN term[0] + term[1]
                      ELSE IF n = 2 THEN term[0] + term[1] + term[2]
                      ELSE term[0] + term[1] + term[2] + term[3]
        t      == col(0) + (256 * (col(1) % 256))
    IN  W(((t \div Half) + (col(1) \div 256) + col(2) + (256 * (col(3) % 256))) % Half,
          t % Half)

\* The statement a step is about to execute, if it executes one.
NoStmt == Stmt("none", "none", "none", 0)

NextStmt ==
    CASE phase = "fold" /\ pc <= Len(FoldBody(Len(key)))  -> FoldBody(Len(key))[pc]
      [] phase = "mix" /\ pc <= Len(jenkins_mix_body)      -> jenkins_mix_body[pc]
      [] phase = "tail" /\ pc <= Len(jenkins_fold4_tail)   -> jenkins_fold4_tail[pc]
      [] phase = "final" /\ pc <= Len(jenkins_final_body)  -> jenkins_final_body[pc]
      [] phase = "wang" /\ pc <= Len(wang_hash_body)       -> wang_hash_body[pc]
      [] OTHER -> NoStmt

\* The uint variables of the routine the evaluation is in.
Locals ==
    CASE phase = "fold"             -> fold
      [] phase \in {"mix", "final"} -> callee
      [] phase = "tail"             -> mixed
      [] OTHER                      -> [K |-> K]

\* Every state word of the evaluation.
StateWords ==
    {fold.a, fold.b, fold.c, mixed.A, mixed.B, mixed.C,
     callee.A, callee.B, callee.C, K, h}

\* What a statement does to the variable it assigns, in 32-bit arithmetic
\* on bits: r the variables before and v the value assigned.
StmtWraps(st, r, v) ==
    /\ IsWord(v)
    /\ CASE st.op = "add"     -> v = AddBits(r[st.d], r[st.s])
          [] st.op = "addkey"  -> v = AddBits(r[st.d], key[st.s])
          [] st.op = "sub"     -> AddBits(v, r[st.s]) = r[st.d]
          [] st.op = "subrot"  -> AddBits(v, RotBits(r[st.s], st.k)) = r[st.d]
          [] st.op = "xor"     -> v = XorBits(r[st.d], r[st.s])
          [] st.op = "xorrot"  -> v = XorBits(r[st.d], RotBits(r[st.s], st.k))
          [] st.op = "mov"     -> v = r[st.s]
          [] st.op = "seed"    -> v = AddBits(AddBits(W(\hdead, \hbeef), ShlBits(WNat(st.s), 2)),
                                              WNat(13))
          [] st.op = "xorcshr" -> v = XorBits(XorBits(r[st.d], WNat(st.s)), ShrBits(r[st.d], st.k))
          [] st.op = "mul"     -> v = MulBytes(r[st.d], st.s)
          [] st.op = "xorshr"  -> v = XorBits(r[st.d], ShrBits(r[st.d], st.k))
          [] OTHER             -> TRUE

\* A step that executes a statement assigns the 32-bit result.
StepWraps ==
    (NextStmt.op # "none" /\ pc' = pc + 1)
        => StmtWraps(NextStmt, Locals, Locals'[NextStmt.d])

\* C13: at every step of every hash evaluation each state word is in
\* 0..2^32-1, and every statement assigns the result of its operation
\* modulo 2^32: additions and multiplications drop the carry out of bit 31,
\* subtractions borrow into it, left shifts drop the bits above bit 31.
C13_WordsWrap ==
    /\ [](\A x \in StateWords : IsWord(x))
    /\ [][StepWraps]_vars

\* C13 witness: an addition has wrapped: jenkins_fold1 added the key word
\* 0x5d8c8fc6 to the seed 0xdeadbf00 and a holds 0x3c3a4ec6.
C13_Witness ==
    /\ phase = "fold"
    /\ key = <<W(\h5d8c, \h8fc6)>>
    /\ pc > Len(jenkins_fold1_body)
    /\ fold.a = W(\h3c3a, \h4ec6)
    /\ WideLess(fold.a, fold.b)

\* The statement about to be executed calls rot.
CallsRot == NextStmt.op \in {"xorrot", "subrot"}

\* C14: every call of rot made during a hash evaluation passes a shift k
\* from {4, 6, 8, 11, 14, 16, 19, 24, 25}, a constant of the statement;
\* it is never 0 or 32, so rot shifts left by k and right by 32 - k, both
\* in 1..31.  rot is called from jenkins_mix and jenkins_final only.
C14_RotShifts ==
    CallsRot =>
        /\ NextStmt.k \in {4, 6, 8, 11, 14, 16, 19, 24, 25}
        /\ NextStmt.k \notin {0, 32}
        /\ NextStmt.k \in 1..31
        /\ (32 - NextStmt.k) \in 1..31
        /\ phase \in {"mix", "final"}

\* C14 witness: jenkins_final is about to call rot with k = 25.
C14_Witness ==
    /\ CallsRot
    /\ phase = "final"
    /\ NextStmt.k = 25
    /\ callee.A # callee.B

\* What an entry point returns when its evaluation runs alone.
AloneValue(f, v) ==
    IF f \in JenkinsEntries
    THEN jenkins_normalize(jenkins_fold(EntryArgs(f, v)), rmode)
    ELSE IF EntryUsesFold(f)
         THEN wang_hash(jenkins_fold(EntryArgs(f, v)), rmode)
         ELSE wang_hash(EntryArgs(f, v)[1], rmode)

\* A call whose frame is f has returned the value it returns when alone.
ReturnsAlone(f) == f.phase = "done" => f.out = AloneValue(f.fn, f.input)

\* The variables of a call that is not stepping stay as they are: a step
\* either leaves them alone or makes that call the stepping one, with the
\* variables it had.
FramesKept ==
    \A i \in DOMAIN parked :
        \/ parked'[i] = parked[i]
        \/ (parked'[i] = FrameNow /\ FrameNow' = parked[i])

\* C15: hash calls executed concurrently, their statements interleaved in
\* any order, each return the value they return when run alone; a step of
\* one call leaves the variables of every other call as they were.
C15_Concurrent ==
    /\ [](ReturnsAlone(FrameNow) /\ \A i \in DOMAIN parked : ReturnsAlone(parked[i]))
    /\ [][FramesKept]_vars

\* C15 witness: a call has returned while another call is in the middle of
\* jenkins_mix or jenkins_final, after running some of its statements.
C15_Witness ==
    /\ phase = "done"
    /\ out = AloneValue(fn, input)
    /\ \E i \in DOMAIN parked :
            /\ parked[i].phase \in {"mix", "final"}
            /\ parked[i].pc > 2
            /\ parked[i].fn # fn
            /\ parked[i].callee # callee

\* The invocations of the dispatch that have run.
Ran == (0..((bsize[1] * bsize[2]) - 1)) \ bpending

\* C16: the width * height invocations write texel (i mod width,
\* i div width): no texel is written twice, the texels written are those of
\* the invocations that have run, each by the one invocation
\* i = y * width + x, and once all have run every texel holds the value of
\* its own invocation, whatever the order they ran in.
C16_OneWritePerTexel ==
    bkern # "none" =>
        /\ \A t \in Texels(bsize) :
                /\ bcount[t] <= 1
                /\ bcount[t] = Cardinality({i \in Ran : index2d(i, bsize) = t})
                /\ (bcount[t] = 1 <=> ((t[2] * bsize[1]) + t[1]) \in Ran)
                /\ (bcount[t] = 1 =>
                        bstore[t] = value_fn(uv01(bkern, (t[2] * bsize[1]) + t[1], bsize)))
                /\ (bcount[t] = 0 => bstore[t] = <<>>)
        /\ \A i \in Ran : index2d(i, bsize) \in Texels(bsize)
        /\ (bpending = {} => \A t \in Texels(bsize) : bcount[t] = 1)

\* C16 witness: all invocations of a 2 x 3 texture have run.
C16_Witness ==
    /\ bkern = "bake_texture2d"
    /\ bsize = <<2, 3>>
    /\ bpending = {}
    /\ \A t \in Texels(bsize) : bcount[t] = 1

\* C17: the coordinate given to the value callback for texel (x, y) is
\* (x / max(width-1, 1), y / max(height-1, 1)): in [0, 1] on each axis,
\* 0 at index 0, 1 at the last index of an axis of size > 1, 0 with
\* divisor 1 on an axis of size 1; the same in both kernels.
C17_NormalizedCoord ==
    bkern # "none" =>
        \A t \in Texels(bsize) :
            bcount[t] >= 1 =>
                \A a \in 1..2 :
                    LET c == bstore[t][a]
                    IN  /\ c.num = t[a]
                        /\ c.den = Max(bsize[a] - 1, 1)
                        /\ c.den >= 1
                        /\ 0 <= c.num /\ c.num <= c.den
                        /\ (t[a] = 0 => c.num = 0)
                        /\ ((bsize[a] > 1 /\ t[a] = bsize[a] - 1) => c.num = c.den)
                        /\ (bsize[a] = 1 => (c.num = 0 /\ c.den = 1))
                        /\ c = uv01("bake_texture2d", (t[2] * bsize[1]) + t[1], bsize)[a]
                        /\ c = uv01("write_texture2d_kernel", (t[2] * bsize[1]) + t[1], bsize)[a]

\* C17 witness: the last texel of a 3 x 1 texture has been written by
\* write_texture2d_kernel: coordinate (1, 0), the height axis divided by 1.
C17_Witness ==
    /\ bkern = "write_texture2d_kernel"
    /\ bsize = <<3, 1>>
    /\ bcount[<<2, 0>>] = 1
    /\ bstore[<<2, 0>>] = <<[num |-> 2, den |-> 2], [num |-> 0, den |-> 1]>>

\* The permutations of 1..n, and a list rearranged by one.
Perms(n) == {q \in [1..n -> 1..n] : \A i, j \in 1..n : q[i] = q[j] => i = j}

Permuted(stops, q) == [i \in 1..Len(stops) |-> stops[q[i]]]

\* The stops passed have pairwise different positions.
DistinctPositions(stops) ==
    \A i, j \in 1..Len(stops) : stops[i][1] = stops[j][1] => i = j

\* Every rearrangement of the stops passed gives the color returned.
SameForPermutations ==
    \A q \in Perms(Len(ramp_stops)) :
        color_ramp_linear(Permuted(ramp_stops, q), ramp_fac, ramp_nan) = ramp_color

\* The stops are taken in ascending position order.
Ascending(sorted) ==
    \A i \in 1..(Len(sorted) - 1) : sorted[i][1].value <= sorted[i + 1][1].value

\* C18 as stated: for every list of stops, every permutation of it and
\* every fac the returned color is the same, and the caller's array is
\* left unmodified.
C18_AsStated ==
    /\ [](ramp_pc = "done" => SameForPermutations)
    /\ [][ramp_pc # "idle" => ramp_stops' = ramp_stops]_vars

\* C18 (amended): color_ramp_linear evaluates the stops in ascending
\* position order; for every list of stops whose positions are pairwise
\* different, every permutation of that list and every fac, the returned
\* color is the same; the caller's stops array is left unmodified.
C18_PermutationInvariant ==
    /\ []((ramp_pc \in {"sorted", "loop", "done"}) => Ascending(ramp_sorted))
    /\ []((ramp_pc = "done" /\ DistinctPositions(ramp_stops)) => SameForPermutations)
    /\ [][ramp_pc # "idle" => ramp_stops' = ramp_stops]_vars

\* C18 witness: three stops with different positions, passed out of order,
\* have been sampled between two of them.
C18_Witness ==
    /\ ramp_pc = "done"
    /\ Len(ramp_stops) = 3
    /\ DistinctPositions(ramp_stops)
    /\ ramp_stops[1][1] > ramp_stops[2][1]
    /\ ramp_color.den = 2
    /\ SameForPermutations

\* A vec4 input with its x and z components exchanged.
SwapXZ(v) == <<v[3], v[2], v[1], v[4]>>

\* A vec4 input with x + z (modulo 2^32) as x and 0 as z.
SumXZ(v) == <<WAdd(v[1], v[3]), v[2], Zero, v[4]>>

\* C19: jenkins_fold4 depends on its first and third key words only
\* through their sum modulo 2^32: the word it returns for (kx, ky, kz, kw)
\* is the word for (kz, ky, kx, kw) and for (kx + kz, ky, 0, kw); so
\* jenkins_hash14 and wang_hash14 return the same value with the x and z
\* components exchanged.
C19_Fold4Sum ==
    /\ (phase = "mix" /\ pc = 1) => callee.A = WAdd(Seed(4), WAdd(key[1], key[3]))
    /\ (phase = "folded" /\ Len(key) = 4)
            => /\ h = jenkins_fold(SwapXZ(key))
               /\ h = jenkins_fold(SumXZ(key))
    /\ (phase = "done" /\ Len(input) = 4)
            => /\ out = AloneValue(fn, SwapXZ(input))
               /\ out = AloneValue(fn, SumXZ(input))

\* C19 witness: wang_hash14 has returned on an input whose x and z
\* components differ.
C19_Witness ==
    /\ phase = "done"
    /\ fn = "wang_hash14"
    /\ input[1] # input[3]
    /\ SwapXZ(input) # input
    /\ out = AloneValue(fn, SwapXZ(input))

\* x * c modulo 2^32 for a multiplier given as the word c.
TimesWord(x, c) == WAdd(WShl(WMul(x, c[1]), 16), WMul(x, c[2]))

\* The inverses modulo 2^32 of the multipliers of wang_hash:
\* 9 * 0x38e38e39 = 0x27d4eb2d * 0xfb699ca5 = 1 (mod 2^32).
InverseOf9 == W(\h38e3, \h8e39)

InverseOf27d4eb2d == W(\hfb69, \h9ca5)

\* What undoes statement j of wang_hash, applied to the word x it left.
WangUndo(j, x) ==
    CASE j = 1 -> WXor(WXor(x, WNat(61)), WShr(x, 16))
      [] j = 2 -> TimesWord(x, InverseOf9)
      [] j = 3 -> LET a == WXor(x, WShr(x, 4))
                      b == WXor(a, WShr(a, 8))
                  IN  WXor(b, WShr(b, 16))
      [] j = 4 -> TimesWord(x, InverseOf27d4eb2d)
      [] j = 5 -> LET a == WXor(x, WShr(x, 15))
                  IN  WXor(a, WShr(a, 30))

\* The word before the first n statements, from the word after them.
RECURSIVE WangUndone(_, _)
WangUndone(x, n) == IF n = 0 THEN x ELSE WangUndone(WangUndo(n, x), n - 1)

\* C20: the word K of wang_hash before the conversion to float is a
\* bijection of the input word: each of the five statements can be undone
\* modulo 2^32, so the input word is recovered from K after any number of
\* them, and different input words never give the same K.
C20_WangBijection ==
    /\ phase = "wang" => WangUndone(K, pc - 1) = WangArg
    /\ (phase = "wang" /\ pc > Len(wang_hash_body))
            => \A x \in ScalarKeys : x # WangArg => wang_word(x) # K

\* C20 witness: wang_hash has run its five statements on the folded word
\* of wang_hash12, and undoing them gives that word back.
C20_Witness ==
    /\ phase = "wang"
    /\ pc = Len(wang_hash_body) + 1
    /\ fn = "wang_hash12"
    /\ K # WangArg
    /\ WangUndone(K, 5) = h

\* The invocations of the 3D dispatch that have run.
Ran3d == (0..((bsize[1] * bsize[2] * bsize[3]) - 1)) \ bpending

\* The instance index of the texel t = (x, y, z): (z * height + y) * width + x.
InstanceOf(t, size) == (((t[3] * size[2]) + t[2]) * size[1]) + t[1]

\* C21: in the 3D kernel the invocation with instance index i writes texel
\* (i mod width, (i div width) mod height, i div (width * height)); each
\* coordinate is within its axis, different invocations write different
\* texels, every texel is the texel of one invocation, no texel is written
\* twice and once all have run every texel was written exactly once; the
\* coordinate given to the callback is the texel divided per axis by
\* max(size - 1, 1), in [0, 1].
C21_Bake3d ==
    bkern = "write_texture3d_kernel" =>
        LET n == bsize[1] * bsize[2] * bsize[3]
        IN  /\ \A i \in 0..(n - 1) :
                    LET t == index3d(i, bsize)
                    IN  /\ t[1] = i % bsize[1]
                        /\ t[2] = (i \div bsize[1]) % bsize[2]
                        /\ t[3] = i \div (bsize[1] * bsize[2])
                        /\ t \in Texels3d(bsize)
                        /\ InstanceOf(t, bsize) = i
            /\ \A i, j \in 0..(n - 1) :
                    index3d(i, bsize) = index3d(j, bsize) => i = j
            /\ \A t \in Texels3d(bsize) :
                    /\ InstanceOf(t, bsize) \in 0..(n - 1)
                    /\ index3d(InstanceOf(t, bsize), bsize) = t
                    /\ bcount[t] <= 1
                    /\ bcount[t] = Cardinality({i \in Ran3d : index3d(i, bsize) = t})
                    /\ (bcount[t] = 1 <=> InstanceOf(t, bsize) \in Ran3d)
                    /\ (bcount[t] = 0 => bstore[t] = <<>>)
                    /\ (bcount[t] = 1 =>
                            \A a \in 1..3 :
                                LET c == bstore[t][a]
                                IN  /\ c.num = t[a]
                                    /\ c.den = Max(bsize[a] - 1, 1)
                                    /\ 0 <= c.num /\ c.num <= c.den)
            /\ (bpending = {} => \A t \in Texels3d(bsize) : bcount[t] = 1)

\* C21 witness: all twelve invocations of a 2 x 3 x 2 texture have run, and
\* the last texel holds the coordinate (1, 1, 1).
C21_Witness ==
    /\ bkern = "write_texture3d_kernel"
    /\ bsize = <<2, 3, 2>>
    /\ bpending = {}
    /\ \A t \in Texels3d(bsize) : bcount[t] = 1
    /\ bstore[<<1, 2, 1>>] = [a \in 1..3 |-> [num |-> <<1, 2, 1>>[a], den |-> <<1, 2, 1>>[a]]]

\* The indices (from 0) of the stops whose offset fac does not exceed.
AtLeastFac(stops, f) ==
    {e \in 0..(Len(stops) - 1) : ~f.nan /\ f.halves <= 2 * stops[e + 1][1]}

\* The smallest of them, or the number of stops when there is none.
FirstAtLeast(stops, f) ==
    IF AtLeastFac(stops, f) = {} THEN Len(stops)
    ELSE CHOOSE e \in AtLeastFac(stops, f) : \A e2 \in AtLeastFac(stops, f) : e <= e2

\* The offsets of the stops are in ascending order.
AscendingOffsets(stops) ==
    \A j \in 1..(Len(stops) - 1) : stops[j][1] <= stops[j + 1][1]

\* C22: in color_ramp with SIZE >= 1 stops, after the loop i_end is the
\* smallest index i with fac <= offsets[i], or SIZE when there is none (with
\* ascending offsets: the stops from i_end on are those at or above fac);
\* the ramp returns colors[0] when i_end = 0 and colors[SIZE-1] when
\* i_end = SIZE, so i_start = i_end - 1 is computed and used only with
\* 1 <= i_end <= SIZE-1, without unsigned underflow, and every element read
\* is within its array; then in 'constant' mode the result is
\* colors[i_start] and in 'linear' mode the mix of colors[i_start] and
\* colors[i_end] by (fac - offsets[i_start]) / (offsets[i_end] -
\* offsets[i_start]), a factor above 0 and at most 1.
C22_LoopRamp ==
    LET n     == Len(cr_colorstops)
        first == FirstAtLeast(cr_colorstops, cr_fac)
    IN  /\ cr_pc \in {"if_first", "if_last", "i_start", "if_mode", "mix", "done"}
                => /\ i_end = WNat(first)
                   /\ (AscendingOffsets(cr_colorstops)
                            => AtLeastFac(cr_colorstops, cr_fac) = first..(n - 1))
        /\ (cr_pc \in {"if_mode", "mix"} \/ cr_via \in {"constant", "linear"})
                => /\ 1 <= first /\ first <= n - 1
                   /\ i_start = WNat(first - 1)
                   /\ i_start[1] = 0 /\ i_start[2] + 1 = i_end[2]
        /\ \A r \in cr_reads : r[2][1] = 0 /\ r[2][2] < n
        /\ cr_pc = "done"
                => /\ (first = 0 <=> cr_via = "first")
                   /\ (first = n <=> cr_via = "last")
                   /\ (cr_via = "first" => cr_out = cr_colorstops[1][2])
                   /\ (cr_via = "last" => cr_out = cr_colorstops[n][2])
                   /\ (first \in 1..(n - 1) =>
                        LET lo == cr_colorstops[first][1]
                            hi == cr_colorstops[first + 1][1]
                            c0 == cr_colorstops[first][2]
                            c1 == cr_colorstops[first + 1][2]
                            t  == [num |-> cr_fac.halves - (2 * lo), den |-> 2 * (hi - lo)]
                        IN  /\ (cr_mode = "constant" <=> cr_via = "constant")
                            /\ (cr_mode = "linear" <=> cr_via = "linear")
                            /\ (cr_via = "constant" => cr_out = c0)
                            /\ (cr_via = "linear" =>
                                    /\ 0 < t.num /\ t.num <= t.den
                                    /\ cr_out.num * t.den
                                         = cr_out.den *
                                           ((c0.num * (t.den - t.num)) + (c1.num * t.num))
                                    /\ cr_out.den > 0))

\* C22 witness: a linear ramp of three ascending stops has been sampled
\* halfway between its second and third stop and returned the mix of their
\* colors, 3/2, with i_start = 1 and i_end = 2.
C22_Witness ==
    /\ cr_pc = "done"
    /\ cr_via = "linear"
    /\ Len(cr_colorstops) = 3
    /\ AscendingOffsets(cr_colorstops)
    /\ cr_colorstops[2][1] = 1 /\ cr_colorstops[3][1] = 2
    /\ cr_fac = [nan |-> FALSE, halves |-> 3]
    /\ i_start = WNat(1)
    /\ i_end = WNat(2)
    /\ cr_out = [num |-> 3, den |-> 2]

====
